---- MODULE Spec2Model ----
(***************************************************************************)
(* A model of the musashi-go M68000 core: the CPU struct and its control   *)
(* surface (Reset, Execute, interrupts, halt, context save/restore,        *)
(* register access) over the SimpleMemory handler of the tests.            *)
(*                                                                         *)
(* A uint32 is the pair <<hi, lo>> of its 16-bit halves, so that 32-bit    *)
(* wrap-around is exact; uint16 and uint8 values and the cycle counters    *)
(* (Go int) are plain integers.                                            *)
(***************************************************************************)
EXTENDS Integers, Sequences, FiniteSets, TLC

VARIABLES cpu, ram, pos, op, arg, exec, ctx, resetRun, nops, thr

vars == <<cpu, ram, pos, op, arg, exec, ctx, resetRun, nops, thr>>

---------------------------------------------------------------------------
(* Bounds of the model *)

\* host operations (calls of the control surface) in one behaviour
MaxOps == 4

\* ModifyTimeslice calls an instruction hook makes within one Execute
MaxModify == 1

\* instruction handlers and flag functions run in one behaviour
MaxInstr == 2

---------------------------------------------------------------------------
(* Program constants *)

CPU68000 == 1
CPU68010 == 2

---------------------------------------------------------------------------
(* uint32 arithmetic on <<hi, lo>> pairs *)

W16 == 256 * 256

U32(hi, lo) == <<hi, lo>>

Zero32 == U32(0, 0)

\* x + n mod 2^32, for a uint32 x and an integer n (negative to subtract)
Add32(x, n) ==
    LET t == x[2] + n
    IN  U32((x[1] + (t \div W16)) % W16, t % W16)

\* x + y mod 2^32, for two uint32
AddU32(x, y) ==
    LET t == x[2] + y[2]
    IN  U32((x[1] + y[1] + (t \div W16)) % W16, t % W16)

\* uint16(x), uint8(x) of a uint32
Trunc16(x) == x[2]
Trunc8(x) == x[2] % 256

\* x & mask, for one bit or a field of sr given by its weight and width
Bits(v, weight, width) == (v \div weight) % width

SetBit(v, weight) == IF Bits(v, weight, 2) = 1 THEN v ELSE v + weight

IntAckAutovector == U32(\hFFFF, \hFFFF)
IntAckSpurious == U32(\hFFFF, \hFFFE)

---------------------------------------------------------------------------
(* SimpleMemory: 1 MB of RAM, big-endian; ram holds the non-zero bytes.    *)
(* Only the first byte's address is masked: a word or long access at the   *)
(* last bytes of the array indexes past it, which the inputs below never   *)
(* do.                                                                     *)

\* address & 0xFFFFF
Mask20(address) == (address[1] % 16) * W16 + address[2]

Byte(r, i) == IF i \in DOMAIN r THEN r[i] ELSE 0

Poke(r, i, v) ==
    IF v = 0
    THEN [x \in DOMAIN r \ {i} |-> r[x]]
    ELSE [x \in DOMAIN r \cup {i} |-> IF x = i THEN v ELSE r[x]]

Read8(r, address) == Byte(r, Mask20(address))

Read16(r, address) ==
    LET addr == Mask20(address)
    IN  Byte(r, addr) * 256 + Byte(r, addr + 1)

Read32(r, address) ==
    LET addr == Mask20(address)
    IN  U32(Byte(r, addr) * 256 + Byte(r, addr + 1),
            Byte(r, addr + 2) * 256 + Byte(r, addr + 3))

Write8(r, address, value) == Poke(r, Mask20(address), value)

Write16(r, address, value) ==
    LET addr == Mask20(address)
    IN  Poke(Poke(r, addr, value \div 256), addr + 1, value % 256)

Write32(r, address, value) ==
    LET addr == Mask20(address)
    IN  Poke(Poke(Poke(Poke(r, addr, value[1] \div 256),
                       addr + 1, value[1] % 256),
                  addr + 2, value[2] \div 256),
             addr + 3, value[2] % 256)

---------------------------------------------------------------------------
(* The CPU struct and NewCPU *)

Regs == 0 .. 7

NewCPU(cpuType) ==
    [ cpuType |-> cpuType,
      d |-> [i \in Regs |-> Zero32],
      a |-> [i \in Regs |-> Zero32],
      pc |-> Zero32,
      sr |-> 0,
      usp |-> Zero32, isp |-> Zero32, msp |-> Zero32,
      sfc |-> 0, dfc |-> 0,
      vbr |-> Zero32, cacr |-> Zero32, caar |-> Zero32,
      stopped |-> FALSE, halted |-> FALSE,
      cyclesRun |-> 0, cyclesRemain |-> 0,
      irqLevel |-> 0,
      virq |-> [i \in Regs |-> FALSE],
      prefetchAddr |-> Zero32, prefetchData |-> Zero32,
      ppc |-> Zero32,
      ir |-> 0,
      memory |-> FALSE,
      intAckCallback |-> "nil",
      resetCallback |-> FALSE,
      instrHookCallback |-> FALSE ]

---------------------------------------------------------------------------
(* Reset *)

\* clear all data and address registers, sr = 0x2700, clear control registers
clearRegisters(c) ==
    [c EXCEPT !.d = [i \in Regs |-> Zero32],
              !.a = [i \in Regs |-> Zero32],
              !.sr = \h2700,
              !.sfc = 0, !.dfc = 0,
              !.vbr = Zero32, !.cacr = Zero32, !.caar = Zero32]

clearExecutionState_keepHalted(c) ==
    [c EXCEPT !.stopped = FALSE,
              !.cyclesRun = 0, !.cyclesRemain = 0,
              !.irqLevel = 0]

clearExecutionState(c) ==
    [c EXCEPT !.stopped = FALSE, !.halted = FALSE,
              !.cyclesRun = 0, !.cyclesRemain = 0,
              !.irqLevel = 0]

\* initial SSP and PC from addresses 0 and 4 if a handler is set
loadVectors(c, r) ==
    IF c.memory
    THEN [c EXCEPT !.a[7] = Read32(r, U32(0, 0)),
                   !.pc = Read32(r, U32(0, 4))]
    ELSE [c EXCEPT !.a[7] = Zero32, !.pc = Zero32]

clearStackPointers(c) ==
    [c EXCEPT !.usp = Zero32, !.isp = Zero32, !.msp = Zero32]

clearPrefetch(c) ==
    [c EXCEPT !.prefetchAddr = Zero32, !.prefetchData = Zero32,
              !.ppc = c.pc,
              !.ir = 0]

Reset_ppcBeforeVectors(c, r) ==
    [clearPrefetch(clearStackPointers(loadVectors(
        clearExecutionState(clearRegisters(c)), r)))
     EXCEPT !.ppc = c.pc]

Reset(c, r) ==
    clearPrefetch(clearStackPointers(loadVectors(
        clearExecutionState(clearRegisters(c)), r)))

---------------------------------------------------------------------------
(* Stack, cycles, interrupts *)

useCycles_remainOnly(c, cycles) ==
    [c EXCEPT !.cyclesRemain = c.cyclesRemain - cycles]

useCycles_runDown(c, cycles) ==
    [c EXCEPT !.cyclesRun = c.cyclesRun - cycles,
              !.cyclesRemain = c.cyclesRemain - cycles]

useCycles(c, cycles) ==
    [c EXCEPT !.cyclesRun = c.cyclesRun + cycles,
              !.cyclesRemain = c.cyclesRemain - cycles]

\* a machine state: the CPU struct and the RAM behind its memory handler
M(c, r) == [cpu |-> c, ram |-> r]

pushWord(m, value) ==
    LET sp == Add32(m.cpu.a[7], -2)
    IN  M([m.cpu EXCEPT !.a[7] = sp],
          IF m.cpu.memory THEN Write16(m.ram, sp, value) ELSE m.ram)

pushLong(m, value) ==
    LET sp == Add32(m.cpu.a[7], -4)
    IN  M([m.cpu EXCEPT !.a[7] = sp],
          IF m.cpu.memory THEN Write32(m.ram, sp, value) ELSE m.ram)

\* what the interrupt acknowledge callback returns
intAckCallback(cb, level) ==
    CASE cb = "auto" -> IntAckAutovector
      [] cb = "spurious" -> IntAckSpurious
      [] OTHER -> U32(0, 64)

Times4_timesTwo(v) == AddU32(v, v)

\* vector * 4 mod 2^32
Times4(v) == AddU32(AddU32(v, v), AddU32(v, v))

handleInterrupt_srPushedFirst(m, level) ==
    LET c == m.cpu
        ack == IF c.intAckCallback # "nil"
               THEN intAckCallback(c.intAckCallback, level)
               ELSE IntAckAutovector
        vector == IF ack = IntAckAutovector THEN U32(0, \h18 + level)
                  ELSE IF ack = IntAckSpurious THEN U32(0, \h18)
                  ELSE ack
        oldSR == c.sr
        sr1 == SetBit(c.sr, \h2000)
        sr2 == sr1 - Bits(sr1, 256, 8) * 256 + level * 256
        m1 == pushWord(M([c EXCEPT !.sr = sr2], m.ram), oldSR)
        m2 == pushLong(m1, c.pc)
        vectorAddr == IF c.cpuType >= CPU68010
                      THEN AddU32(c.vbr, Times4(vector))
                      ELSE Times4(vector)
    IN  M(useCycles([m2.cpu EXCEPT !.pc = Read32(m2.ram, vectorAddr)], 44),
          m2.ram)

handleInterrupt(m, level) ==
    LET c == m.cpu
        ack == IF c.intAckCallback # "nil"
               THEN intAckCallback(c.intAckCallback, level)
               ELSE IntAckAutovector
        vector == IF ack = IntAckAutovector THEN U32(0, \h18 + level)
                  ELSE IF ack = IntAckSpurious THEN U32(0, \h18)
                  ELSE ack
        oldSR == c.sr
        sr1 == SetBit(c.sr, \h2000)
        sr2 == sr1 - Bits(sr1, 256, 8) * 256 + level * 256
        m1 == pushLong(M([c EXCEPT !.sr = sr2], m.ram), c.pc)
        m2 == pushWord(m1, oldSR)
        vectorAddr == IF c.cpuType >= CPU68010
                      THEN AddU32(c.vbr, Times4(vector))
                      ELSE Times4(vector)
    IN  M(useCycles([m2.cpu EXCEPT !.pc = Read32(m2.ram, vectorAddr)], 44),
          m2.ram)

interruptTaken_level7Masked(c) ==
    /\ c.irqLevel # 0
    /\ c.irqLevel > Bits(c.sr, 256, 8)

\* whether checkInterrupts takes the pending interrupt
interruptTaken(c) ==
    /\ c.irqLevel # 0
    /\ \/ c.irqLevel = 7
       \/ c.irqLevel > Bits(c.sr, 256, 8)

checkInterrupts(m) ==
    IF interruptTaken(m.cpu) THEN handleInterrupt(m, m.cpu.irqLevel) ELSE m

---------------------------------------------------------------------------
(* Execute *)

\* the nil-handler return, then the timeslice set-up
executeEntry_countersFirst(c, cycles) ==
    [c EXCEPT !.cyclesRemain = cycles, !.cyclesRun = 0]

executeEntry(c, cycles) ==
    IF ~c.memory
    THEN c
    ELSE [c EXCEPT !.cyclesRemain = cycles, !.cyclesRun = 0]

loopCondition_zeroBudgetRuns(c) ==
    c.cyclesRemain >= 0 /\ ~c.stopped /\ ~c.halted

loopCondition_ignoresHalted(c) ==
    c.cyclesRemain > 0 /\ ~c.stopped

loopCondition(c) ==
    c.cyclesRemain > 0 /\ ~c.stopped /\ ~c.halted

executeInstruction_chargesTwo(c, r) ==
    LET c1 == [c EXCEPT !.ir = Read16(r, c.pc)]
        c2 == [c1 EXCEPT !.pc = Add32(c1.pc, 2)]
    IN  useCycles(c2, 2)

\* fetch, pc += 2, the minimum cycles; NOP and RESET are the only opcodes told
\* apart, and neither changes the CPU (RESET calls the reset callback if set)
executeInstruction(c, r) ==
    LET c1 == [c EXCEPT !.ir = Read16(r, c.pc)]
        c2 == [c1 EXCEPT !.pc = Add32(c1.pc, 2)]
    IN  useCycles(c2, 4)

PulseHalt(c) == [c EXCEPT !.halted = TRUE]

ModifyTimeslice_bothCounters(c, cycles) ==
    [c EXCEPT !.cyclesRemain = c.cyclesRemain + cycles,
              !.cyclesRun = c.cyclesRun + cycles]

ModifyTimeslice(c, cycles) ==
    [c EXCEPT !.cyclesRemain = c.cyclesRemain + cycles]

EndTimeslice_oneMore(c) == [c EXCEPT !.cyclesRemain = 8]

EndTimeslice(c) == [c EXCEPT !.cyclesRemain = 0]

\* what an instruction hook does with the CPU it shares
HookActs ==
    { <<"none", 0>>, <<"EndTimeslice", 0>>, <<"PulseHalt", 0>>,
      <<"ModifyTimeslice", 4>>, <<"ModifyTimeslice", -4>> }

instrHookCallback(c, h) ==
    CASE h[1] = "EndTimeslice" -> EndTimeslice(c)
      [] h[1] = "PulseHalt" -> PulseHalt(c)
      [] h[1] = "ModifyTimeslice" -> ModifyTimeslice(c, h[2])
      [] OTHER -> c

executeIteration_hookBeforeInterrupts(m, h) ==
    LET c1 == IF m.cpu.instrHookCallback
              THEN instrHookCallback(m.cpu, h)
              ELSE m.cpu
        m2 == checkInterrupts(M(c1, m.ram))
        c3 == [m2.cpu EXCEPT !.ppc = m2.cpu.pc]
    IN  [ cpu |-> executeInstruction(c3, m2.ram), ram |-> m2.ram,
          hook |-> IF m.cpu.instrHookCallback THEN <<m.cpu.pc>> ELSE <<>> ]

\* one iteration of the main execution loop: the CPU and the memory after it,
\* and the arguments of the calls it made of the instruction hook
executeIteration(m, h) ==
    LET m1 == checkInterrupts(m)
        c2 == IF m1.cpu.instrHookCallback
              THEN instrHookCallback(m1.cpu, h)
              ELSE m1.cpu
        c3 == [c2 EXCEPT !.ppc = c2.pc]
    IN  [ cpu |-> executeInstruction(c3, m1.ram), ram |-> m1.ram,
          hook |-> IF m1.cpu.instrHookCallback THEN <<m1.cpu.pc>> ELSE <<>> ]

---------------------------------------------------------------------------
(* Interrupt lines *)

SetIRQ(c, level) ==
    [c EXCEPT !.irqLevel = IF level < 0 \/ level > 7 THEN 0 ELSE level]

\* the highest active line, 0 if none
highestActive(v) ==
    IF \E i \in 1 .. 7 : v[i]
    THEN CHOOSE i \in 1 .. 7 : v[i] /\ \A j \in 1 .. 7 : v[j] => j <= i
    ELSE 0

SetVIRQ_raiseOnly(c, level, active) ==
    IF level < 1 \/ level > 7
    THEN c
    ELSE [c EXCEPT !.virq[level] = active,
                   !.irqLevel = IF active /\ level > c.irqLevel
                                THEN level ELSE c.irqLevel]

SetVIRQ(c, level, active) ==
    IF level < 1 \/ level > 7
    THEN c
    ELSE LET v == [c.virq EXCEPT ![level] = active]
         IN  [c EXCEPT !.virq = v, !.irqLevel = highestActive(v)]

---------------------------------------------------------------------------
(* Registers and context *)

RegD0 == 0
RegD7 == 7
RegA0 == 8
RegA7 == 15
RegPC == 16
RegSR == 17
RegSP == 18
RegUSP == 19
RegISP == 20
RegMSP == 21
RegSFC == 22
RegDFC == 23
RegVBR == 24
RegCACR == 25
RegCAAR == 26
RegPrefAddr == 27
RegPrefData == 28
RegPPC == 29
RegIR == 30
RegCPUType == 31

\* uint32(x) of a narrower unsigned value
Ext32(x) == U32(0, x)

GetRegister_spIsA7(c, reg) ==
    CASE reg >= RegD0 /\ reg <= RegD7 -> c.d[reg - RegD0]
      [] reg >= RegA0 /\ reg <= RegA7 -> c.a[reg - RegA0]
      [] reg = RegPC -> c.pc
      [] reg = RegSR -> Ext32(c.sr)
      [] reg = RegSP -> c.a[7]
      [] reg = RegUSP -> c.usp
      [] reg = RegISP -> c.isp
      [] reg = RegMSP -> c.msp
      [] reg = RegSFC -> Ext32(c.sfc)
      [] reg = RegDFC -> Ext32(c.dfc)
      [] reg = RegVBR -> c.vbr
      [] reg = RegCACR -> c.cacr
      [] reg = RegCAAR -> c.caar
      [] reg = RegPrefAddr -> c.prefetchAddr
      [] reg = RegPrefData -> c.prefetchData
      [] reg = RegPPC -> c.ppc
      [] reg = RegIR -> Ext32(c.ir)
      [] reg = RegCPUType -> Ext32(c.cpuType)
      [] OTHER -> Zero32

GetRegister(c, reg) ==
    CASE reg >= RegD0 /\ reg <= RegD7 -> c.d[reg - RegD0]
      [] reg >= RegA0 /\ reg <= RegA7 -> c.a[reg - RegA0]
      [] reg = RegPC -> c.pc
      [] reg = RegSR -> Ext32(c.sr)
      [] reg = RegSP -> IF Bits(c.sr, \h2000, 2) # 0 THEN c.a[7] ELSE c.usp
      [] reg = RegUSP -> c.usp
      [] reg = RegISP -> c.isp
      [] reg = RegMSP -> c.msp
      [] reg = RegSFC -> Ext32(c.sfc)
      [] reg = RegDFC -> Ext32(c.dfc)
      [] reg = RegVBR -> c.vbr
      [] reg = RegCACR -> c.cacr
      [] reg = RegCAAR -> c.caar
      [] reg = RegPrefAddr -> c.prefetchAddr
      [] reg = RegPrefData -> c.prefetchData
      [] reg = RegPPC -> c.ppc
      [] reg = RegIR -> Ext32(c.ir)
      [] reg = RegCPUType -> Ext32(c.cpuType)
      [] OTHER -> Zero32

SetRegister(c, reg, value) ==
    CASE reg >= RegD0 /\ reg <= RegD7 -> [c EXCEPT !.d[reg - RegD0] = value]
      [] reg >= RegA0 /\ reg <= RegA7 -> [c EXCEPT !.a[reg - RegA0] = value]
      [] reg = RegPC -> [c EXCEPT !.pc = value]
      [] reg = RegSR -> [c EXCEPT !.sr = Trunc16(value)]
      [] reg = RegUSP -> [c EXCEPT !.usp = value]
      [] reg = RegISP -> [c EXCEPT !.isp = value]
      [] reg = RegMSP -> [c EXCEPT !.msp = value]
      [] reg = RegSFC -> [c EXCEPT !.sfc = Trunc8(value)]
      [] reg = RegDFC -> [c EXCEPT !.dfc = Trunc8(value)]
      [] reg = RegVBR -> [c EXCEPT !.vbr = value]
      [] reg = RegCACR -> [c EXCEPT !.cacr = value]
      [] reg = RegCAAR -> [c EXCEPT !.caar = value]
      [] OTHER -> c

GetSP(c) == IF Bits(c.sr, \h2000, 2) = 1 THEN c.a[7] ELSE c.usp

SetSP(c, address) ==
    IF Bits(c.sr, \h2000, 2) # 0
    THEN [c EXCEPT !.a[7] = address]
    ELSE [c EXCEPT !.usp = address]

SetSR(c, value) == [c EXCEPT !.sr = value]

GetContext_withoutUSP(c) ==
    [ cpuType |-> c.cpuType, pc |-> c.pc, sr |-> c.sr,
      usp |-> Zero32, isp |-> c.isp, msp |-> c.msp,
      sfc |-> c.sfc, dfc |-> c.dfc,
      vbr |-> c.vbr, cacr |-> c.cacr, caar |-> c.caar,
      d |-> c.d, a |-> c.a ]

GetContext(c) ==
    [ cpuType |-> c.cpuType, pc |-> c.pc, sr |-> c.sr,
      usp |-> c.usp, isp |-> c.isp, msp |-> c.msp,
      sfc |-> c.sfc, dfc |-> c.dfc,
      vbr |-> c.vbr, cacr |-> c.cacr, caar |-> c.caar,
      d |-> c.d, a |-> c.a ]

SetContext(c, x) ==
    [c EXCEPT !.cpuType = x.cpuType, !.pc = x.pc, !.sr = x.sr,
              !.usp = x.usp, !.isp = x.isp, !.msp = x.msp,
              !.sfc = x.sfc, !.dfc = x.dfc,
              !.vbr = x.vbr, !.cacr = x.cacr, !.caar = x.caar,
              !.d = x.d, !.a = x.a]

---------------------------------------------------------------------------
(* STOP, as the decoder's group 4 dispatches it *)

\* the new SR and the CPU after reading it from the instruction stream
readImmediate16(c, r) ==
    IF ~c.memory
    THEN <<0, c>>
    ELSE <<Read16(r, c.pc), [c EXCEPT !.pc = Add32(c.pc, 2)]>>

opSTOP(c, r) ==
    LET imm == readImmediate16(c, r)
    IN  useCycles([imm[2] EXCEPT !.sr = imm[1], !.stopped = TRUE], 4)

---------------------------------------------------------------------------
(* Inputs *)

Blank == [x \in {} |-> 0]

\* reset vectors SSP = 0x1000, PC = 0x400; autovectors 3 and 7
Vectors ==
    Write32(Write32(Write32(Write32(Blank,
        U32(0, 0), U32(0, \h1000)),
        U32(0, 4), U32(0, \h0400)),
        U32(0, \h6C), U32(0, \h0600)),
        U32(0, \h7C), U32(0, \h0500))

\* MOVEQ #$42,D0 at 0x400, then NOP and RESET
ProgramImage ==
    Write16(Write16(Write16(Vectors,
        U32(0, \h0400), \h7042),
        U32(0, \h0402), \h4E71),
        U32(0, \h0404), \h4E70)

Images == {Blank, ProgramImage}

CpuTypes == {CPU68000, CPU68010}

Budgets == {-4, 0, 4, 10}

IrqInputs == {3, 7, 8}

VirqInputs == {0, 3, 5}

RegisterInputs ==
    { <<RegD0, U32(\h1111, \h1111)>>,
      <<RegA7, U32(\hBBBB, \hBBBA)>>,
      <<RegPC, U32(\h1234, \h5678)>>,
      <<RegSR, U32(1, \h8011)>>,
      <<RegSP, U32(0, \h2000)>> }

SPInputs == {U32(0, \h0800)}

SRInputs == {\h2000}

\* interrupt acknowledge callbacks: they answer with the autovector sentinel,
\* the spurious sentinel, or vector 64
AckCallbacks == {"auto", "spurious", "vector"}

\* a context with a different value in every field
SampleContext ==
    [ cpuType |-> CPU68010,
      pc |-> U32(0, \h0404), sr |-> \h2015,
      usp |-> U32(1, 2), isp |-> U32(3, 4), msp |-> U32(5, 6),
      sfc |-> 1, dfc |-> 5,
      vbr |-> U32(0, \h0100), cacr |-> U32(7, 8), caar |-> U32(9, 10),
      d |-> [i \in Regs |-> U32(\hD000 + i, i)],
      a |-> [i \in Regs |-> U32(0, \h3000 + 2 * i)] ]

---------------------------------------------------------------------------
(* The state machine *)

\* exec records the Execute call in progress or last made: its budget n, the
\* CPU as the call found it (stopped, halted, memory attached, an interrupt
\* pending that checkInterrupts would take, Reset being the call before), what
\* its loop did (instructions fetched, interrupts accepted, ModifyTimeslice
\* calls, any hook activity, the calls of the instruction hook and the pc
\* handed to the last of them, whether a hook called EndTimeslice, the sum
\* of the arguments of the ModifyTimeslice calls) and what it returned (ret,
\* once done).

\* thr is the state of the threads that share the CPU: where the thread inside
\* Execute stands in its loop iteration (loop), the interrupt lines as they
\* were when the other threads made their calls (base), and for each of those
\* threads its call and the statement of SetIRQ / SetVIRQ it is at (set). With
\* the host alone, OneThread, every call runs from its first statement to its
\* last without another thread in between.

OneThread ==
    [ loop |-> "head",
      base |-> [virq |-> [i \in Regs |-> FALSE], irqLevel |-> 0],
      set |-> [t \in {} |-> <<>>] ]

NoExec ==
    [ n |-> 0, stopped |-> FALSE, halted |-> FALSE, memory |-> FALSE,
      irq |-> FALSE, afterReset |-> FALSE,
      fetches |-> 0, irqs |-> 0, modify |-> 0, hooked |-> FALSE,
      hooks |-> 0, hookPc |-> Zero32,
      ended |-> FALSE, modifySum |-> 0,
      ret |-> 0, done |-> FALSE ]

Init ==
    /\ cpu \in {NewCPU(t) : t \in CpuTypes}
    /\ ram \in Images
    /\ pos = "idle"
    /\ op = "NewCPU"
    /\ arg = <<>>
    /\ exec = NoExec
    /\ ctx = {}
    /\ resetRun = 0
    /\ nops = 0
    /\ thr = OneThread

\* the host calls an operation of the control surface; arg keeps the arguments
\* of the call (for SetContext: the context, and whether the CPU already held it)
Host(name, a) ==
    /\ pos = "idle"
    /\ nops < MaxOps
    /\ nops' = nops + 1
    /\ op' = name
    /\ arg' = a
    /\ resetRun' = IF name # "Reset" THEN 0
                   ELSE IF resetRun < 2 THEN resetRun + 1 ELSE 2
    /\ thr' = thr

CallSetMemoryHandler(handler) ==
    /\ Host("SetMemoryHandler", <<handler>>)
    /\ cpu' = [cpu EXCEPT !.memory = handler]
    /\ UNCHANGED <<ram, pos, exec, ctx>>

CallSetIntAckCallback(callback) ==
    /\ Host("SetIntAckCallback", <<callback>>)
    /\ cpu' = [cpu EXCEPT !.intAckCallback = callback]
    /\ UNCHANGED <<ram, pos, exec, ctx>>

CallSetInstrHookCallback ==
    /\ Host("SetInstrHookCallback", <<>>)
    /\ cpu' = [cpu EXCEPT !.instrHookCallback = TRUE]
    /\ UNCHANGED <<ram, pos, exec, ctx>>

CallReset ==
    /\ Host("Reset", <<>>)
    /\ cpu' = Reset(cpu, ram)
    /\ UNCHANGED <<ram, pos, exec, ctx>>

CallExecute(cycles) ==
    /\ Host("Execute", <<cycles>>)
    /\ cpu' = executeEntry(cpu, cycles)
    /\ pos' = IF cpu.memory THEN "loop" ELSE "idle"
    /\ exec' = [ n |-> cycles, stopped |-> cpu.stopped, halted |-> cpu.halted,
                 memory |-> cpu.memory,
                 irq |-> interruptTaken(cpu), afterReset |-> op = "Reset",
                 fetches |-> 0, irqs |-> 0, modify |-> 0, hooked |-> FALSE,
                 hooks |-> 0, hookPc |-> Zero32,
                 ended |-> FALSE, modifySum |-> 0,
                 ret |-> 0, done |-> ~cpu.memory ]
    /\ UNCHANGED <<ram, ctx>>

ExecuteStep(h) ==
    /\ pos = "loop"
    /\ loopCondition(cpu)
    /\ h[1] = "ModifyTimeslice" => exec.modify < MaxModify
    /\ LET m == executeIteration(M(cpu, ram), h)
       IN  /\ cpu' = m.cpu
           /\ ram' = m.ram
           /\ exec' = [exec EXCEPT
                  !.fetches = @ + 1,
                  !.irqs = @ + (IF interruptTaken(cpu) THEN 1 ELSE 0),
                  !.modify = @ + (IF h[1] = "ModifyTimeslice" THEN 1 ELSE 0),
                  !.hooked = @ \/ h[1] # "none",
                  !.hooks = @ + Len(m.hook),
                  !.hookPc = IF m.hook = <<>> THEN @ ELSE m.hook[Len(m.hook)],
                  !.ended = @ \/ h[1] = "EndTimeslice",
                  !.modifySum = @ + (IF h[1] = "ModifyTimeslice"
                                     THEN h[2] ELSE 0)]
    /\ op' = "ExecuteStep"
    /\ UNCHANGED <<pos, arg, ctx, resetRun, nops, thr>>

ExecuteReturn ==
    /\ pos = "loop"
    /\ ~loopCondition(cpu)
    /\ pos' = "idle"
    /\ exec' = [exec EXCEPT !.ret = cpu.cyclesRun, !.done = TRUE]
    /\ op' = "ExecuteReturn"
    /\ UNCHANGED <<cpu, ram, arg, ctx, resetRun, nops, thr>>

CallPulseHalt ==
    /\ Host("PulseHalt", <<>>)
    /\ cpu' = PulseHalt(cpu)
    /\ UNCHANGED <<ram, pos, exec, ctx>>

CallSetIRQ(level) ==
    /\ Host("SetIRQ", <<level>>)
    /\ cpu' = SetIRQ(cpu, level)
    /\ UNCHANGED <<ram, pos, exec, ctx>>

CallSetVIRQ(level, active) ==
    /\ Host("SetVIRQ", <<level, active>>)
    /\ cpu' = SetVIRQ(cpu, level, active)
    /\ UNCHANGED <<ram, pos, exec, ctx>>

CallSetRegister(reg, value) ==
    /\ Host("SetRegister", <<reg, value>>)
    /\ cpu' = SetRegister(cpu, reg, value)
    /\ UNCHANGED <<ram, pos, exec, ctx>>

CallSetSP(address) ==
    /\ Host("SetSP", <<address>>)
    /\ cpu' = SetSP(cpu, address)
    /\ UNCHANGED <<ram, pos, exec, ctx>>

CallSetSR(value) ==
    /\ Host("SetSR", <<value>>)
    /\ cpu' = SetSR(cpu, value)
    /\ UNCHANGED <<ram, pos, exec, ctx>>

CallGetContext ==
    /\ Host("GetContext", <<>>)
    /\ ctx' = {GetContext(cpu)}
    /\ UNCHANGED <<cpu, ram, pos, exec>>

CallSetContext(x) ==
    /\ Host("SetContext", <<x, GetContext(cpu) = x>>)
    /\ cpu' = SetContext(cpu, x)
    /\ UNCHANGED <<ram, pos, exec, ctx>>

\* the STOP handler run on the CPU as it stands
CallOpSTOP ==
    /\ Host("opSTOP", <<>>)
    /\ cpu' = opSTOP(cpu, ram)
    /\ UNCHANGED <<ram, pos, exec, ctx>>

Next ==
    \/ \E handler \in BOOLEAN : CallSetMemoryHandler(handler)
    \/ CallSetInstrHookCallback
    \/ CallReset
    \/ \E cycles \in Budgets : CallExecute(cycles)
    \/ \E h \in (IF cpu.instrHookCallback THEN HookActs ELSE {<<"none", 0>>}) :
          ExecuteStep(h)
    \/ ExecuteReturn
    \/ CallPulseHalt
    \/ \E level \in IrqInputs : CallSetIRQ(level)
    \/ \E level \in VirqInputs, active \in BOOLEAN : CallSetVIRQ(level, active)
    \/ \E in \in RegisterInputs : CallSetRegister(in[1], in[2])
    \/ \E address \in SPInputs : CallSetSP(address)
    \/ \E value \in SRInputs : CallSetSR(value)
    \/ CallGetContext
    \/ \E x \in ctx \cup {GetContext(cpu), SampleContext} : CallSetContext(x)
    \/ CallOpSTOP

Spec == Init /\ [][Next]_vars

---------------------------------------------------------------------------
(* The timeslice: a host that attaches memory and an instruction hook,      *)
(* asserts interrupts, halts and resets the CPU and runs it.                *)

NextTimeslice ==
    \/ \E handler \in BOOLEAN : CallSetMemoryHandler(handler)
    \/ CallSetInstrHookCallback
    \/ CallReset
    \/ \E cycles \in Budgets : CallExecute(cycles)
    \/ \E h \in (IF cpu.instrHookCallback THEN HookActs ELSE {<<"none", 0>>}) :
          ExecuteStep(h)
    \/ ExecuteReturn
    \/ CallPulseHalt
    \/ \E level \in IrqInputs : CallSetIRQ(level)

SpecTimeslice == Init /\ [][NextTimeslice]_vars

---------------------------------------------------------------------------
(* One Execute call from entry to return. Execute is a sequential loop on   *)
(* the caller's thread: once entered, its next iteration or its return is   *)
(* taken.                                                                   *)

\* Execute(cycles) has been entered on a CPU with memory, new or reset, with
\* or without an instruction hook, at any interrupt level
InitExecute ==
    /\ ram \in Images
    /\ \E t \in CpuTypes, hook \in BOOLEAN, reset \in BOOLEAN,
          level \in {0, 3, 7}, cycles \in Budgets :
          LET c0 == [NewCPU(t) EXCEPT !.memory = TRUE,
                                      !.instrHookCallback = hook]
              c1 == IF reset THEN Reset(c0, ram) ELSE c0
              c2 == SetIRQ(c1, level)
          IN  /\ cpu = executeEntry(c2, cycles)
              /\ arg = <<cycles>>
              /\ exec = [NoExec EXCEPT !.n = cycles, !.memory = TRUE,
                                       !.irq = interruptTaken(c2)]
    /\ pos = "loop"
    /\ op = "Execute"
    /\ ctx = {}
    /\ resetRun = 0
    /\ nops = MaxOps
    /\ thr = OneThread

NextExecute ==
    \/ \E h \in (IF cpu.instrHookCallback THEN HookActs ELSE {<<"none", 0>>}) :
          ExecuteStep(h)
    \/ ExecuteReturn

\* the loop body is enabled exactly when the loop is entered and its condition
\* holds, and a step of it fetches one more opcode, so this is WF_exec of the
\* loop body with ENABLED written out: the running thread does not stay for
\* ever in front of an iteration it can take
LoopFairness ==
    \/ []<>(~(pos = "loop" /\ loopCondition(cpu)))
    \/ []<><<exec'.fetches = exec.fetches + 1>>_exec

SpecExecute ==
    /\ InitExecute
    /\ [][NextExecute]_vars
    /\ LoopFairness
    /\ WF_pos(ExecuteReturn)

---------------------------------------------------------------------------
(* The interrupt path: a host that installs an interrupt acknowledge        *)
(* callback, sets up sr, vbr and the stack, asserts a level and runs the    *)
(* CPU, with no instruction hook.                                           *)

NextInterrupts ==
    \/ \E handler \in BOOLEAN : CallSetMemoryHandler(handler)
    \/ \E callback \in AckCallbacks : CallSetIntAckCallback(callback)
    \/ CallReset
    \/ \E cycles \in Budgets : CallExecute(cycles)
    \/ ExecuteStep(<<"none", 0>>)
    \/ ExecuteReturn
    \/ \E level \in IrqInputs : CallSetIRQ(level)
    \/ \E in \in RegisterInputs : CallSetRegister(in[1], in[2])
    \/ CallSetContext(SampleContext)

SpecInterrupts == Init /\ [][NextInterrupts]_vars

---------------------------------------------------------------------------
(* SetIRQ and SetVIRQ called from other threads while Execute runs. The CPU  *)
(* struct has no lock and no atomic field: every load and store of virq and *)
(* irqLevel is a step of its own, and the steps of the threads interleave.  *)

Setters == {1, 2}

\* the calls the other threads make
ThreadCalls ==
    { <<"SetVIRQ", 3, TRUE>>, <<"SetVIRQ", 5, TRUE>>, <<"SetVIRQ", 5, FALSE>>,
      <<"SetIRQ", 2, TRUE>> }

\* the first statement of a call
firstStatement(call) == IF call[1] = "SetIRQ" THEN "irq" ELSE "store"

\* Execute(8) is in its loop on a CPU reset over the program, with the
\* interrupt mask lowered to 0 and line 5 latched or not
InitThreads ==
    /\ ram = ProgramImage
    /\ \E latched \in BOOLEAN :
          cpu = executeEntry(
                    SetVIRQ(SetSR(Reset([NewCPU(CPU68000) EXCEPT !.memory = TRUE],
                                        ProgramImage), \h2000),
                            5, latched),
                    8)
    /\ pos = "loop"
    /\ op = "Execute"
    /\ arg = <<8>>
    /\ exec = [NoExec EXCEPT !.n = 8, !.memory = TRUE,
                             !.irq = interruptTaken(cpu)]
    /\ ctx = {}
    /\ resetRun = 0
    /\ nops = MaxOps
    /\ \E calls \in [Setters -> ThreadCalls] :
          thr = [ loop |-> "head",
                  base |-> [virq |-> cpu.virq, irqLevel |-> cpu.irqLevel],
                  set |-> [t \in Setters |->
                             [call |-> calls[t],
                              at |-> firstStatement(calls[t]),
                              i |-> 7]] ]

\* a step of setter thread t that leaves the loop thread alone
SetterStep(t, c, next) ==
    /\ cpu' = c
    /\ thr' = [thr EXCEPT !.set[t] = next]
    /\ UNCHANGED <<ram, pos, op, arg, exec, ctx, resetRun, nops>>

\* SetIRQ: cpu.irqLevel = uint8(level), level clamped in the local variable
IrqStore(t) ==
    LET me == thr.set[t]
    IN  /\ me.at = "irq"
        /\ SetterStep(t, SetIRQ(cpu, me.call[2]), [me EXCEPT !.at = "done"])

\* SetVIRQ: the range check and cpu.virq[level] = active
VirqStore(t) ==
    LET me == thr.set[t]
        level == me.call[2]
    IN  /\ me.at = "store"
        /\ IF level < 1 \/ level > 7
           THEN SetterStep(t, cpu, [me EXCEPT !.at = "done"])
           ELSE SetterStep(t, [cpu EXCEPT !.virq[level] = me.call[3]],
                           [me EXCEPT !.at = "zero"])

\* SetVIRQ: cpu.irqLevel = 0
VirqZero(t) ==
    LET me == thr.set[t]
    IN  /\ me.at = "zero"
        /\ SetterStep(t, [cpu EXCEPT !.irqLevel = 0],
                       [me EXCEPT !.at = "scan", !.i = 7])

\* SetVIRQ: one iteration of the scan for i = 7 .. 1
VirqScan(t) ==
    LET me == thr.set[t]
    IN  /\ me.at = "scan"
        /\ IF me.i < 1
           THEN SetterStep(t, cpu, [me EXCEPT !.at = "done"])
           ELSE IF cpu.virq[me.i]
           THEN SetterStep(t, [cpu EXCEPT !.irqLevel = me.i],
                           [me EXCEPT !.at = "done"])
           ELSE SetterStep(t, cpu, [me EXCEPT !.i = me.i - 1])

\* a step of the thread inside Execute
LoopStep(c, r, next, fetched, taken) ==
    /\ pos = "loop"
    /\ cpu' = c
    /\ ram' = r
    /\ thr' = [thr EXCEPT !.loop = next]
    /\ exec' = [exec EXCEPT !.fetches = @ + fetched, !.irqs = @ + taken]
    /\ op' = IF fetched = 1 THEN "ExecuteStep" ELSE op
    /\ UNCHANGED <<pos, arg, ctx, resetRun, nops>>

\* the loop condition, and checkInterrupts: if cpu.irqLevel == 0 { return }
LoopCheckZero ==
    /\ thr.loop = "head"
    /\ loopCondition(cpu)
    /\ LoopStep(cpu, ram, IF cpu.irqLevel = 0 THEN "fetch" ELSE "mask", 0, 0)

\* checkInterrupts: cpu.irqLevel == 7 || cpu.irqLevel > intMask
LoopCheckMask ==
    /\ thr.loop = "mask"
    /\ LoopStep(cpu, ram,
                IF cpu.irqLevel = 7 \/ cpu.irqLevel > Bits(cpu.sr, 256, 8)
                THEN "take" ELSE "fetch", 0, 0)

\* checkInterrupts: cpu.handleInterrupt(cpu.irqLevel)
LoopTake ==
    /\ thr.loop = "take"
    /\ LET m == handleInterrupt(M(cpu, ram), cpu.irqLevel)
       IN  LoopStep(m.cpu, m.ram, "fetch", 0, 1)

\* the rest of the iteration: ppc = pc and executeInstruction
LoopFetch ==
    /\ thr.loop = "fetch"
    /\ LoopStep(executeInstruction([cpu EXCEPT !.ppc = cpu.pc], ram), ram,
                "head", 1, 0)

LoopReturn ==
    /\ thr.loop = "head"
    /\ ExecuteReturn

NextThreads ==
    \/ \E t \in Setters : IrqStore(t)
    \/ \E t \in Setters : VirqStore(t)
    \/ \E t \in Setters : VirqZero(t)
    \/ \E t \in Setters : VirqScan(t)
    \/ LoopCheckZero
    \/ LoopCheckMask
    \/ LoopTake
    \/ LoopFetch
    \/ LoopReturn

SpecThreads == InitThreads /\ [][NextThreads]_vars

\* the call of thread t as one atomic operation
applyCall(c, call) ==
    IF call[1] = "SetIRQ" THEN SetIRQ(c, call[2])
    ELSE SetVIRQ(c, call[2], call[3])

\* the orders in which some of the calls can have taken effect: each thread
\* at most once, every completed call among them
SerialOrders ==
    { s \in UNION { [1 .. n -> Setters] : n \in 0 .. Cardinality(Setters) } :
        /\ \A i, j \in DOMAIN s : s[i] = s[j] => i = j
        /\ \A t \in Setters :
              thr.set[t].at = "done" => \E i \in DOMAIN s : s[i] = t }

RECURSIVE afterCalls(_, _)
afterCalls(c, s) ==
    IF s = <<>> THEN c
    ELSE afterCalls(applyCall(c, thr.set[Head(s)].call), Tail(s))

\* the levels some serial order of the calls leaves in irqLevel
SerialLevels == { afterCalls(thr.base, s).irqLevel : s \in SerialOrders }

---------------------------------------------------------------------------
(* Condition codes: flags.go *)

FlagC == 1
FlagV == 2
FlagZ == 4
FlagN == 8
FlagX == 16

CondT == 0
CondF == 1
CondHI == 2
CondLS == 3
CondCC == 4
CondCS == 5
CondNE == 6
CondEQ == 7
CondVC == 8
CondVS == 9
CondPL == 10
CondMI == 11
CondGE == 12
CondLT == 13
CondGT == 14
CondLE == 15

\* sr |= flag or sr &^= flag, as b says
WithFlag(sr, flag, b) ==
    IF b THEN SetBit(sr, flag)
    ELSE IF Bits(sr, flag, 2) = 1 THEN sr - flag ELSE sr

\* x & y, x | y or x ^ y on n-bit integers, as f says
RECURSIVE Bitwise(_, _, _, _)
Bitwise(f, x, y, n) ==
    IF n = 0 THEN 0
    ELSE 2 * Bitwise(f, x \div 2, y \div 2, n - 1)
         + (IF CASE f = "and" -> x % 2 = 1 /\ y % 2 = 1
                 [] f = "or" -> x % 2 = 1 \/ y % 2 = 1
                 [] OTHER -> x % 2 # y % 2
            THEN 1 ELSE 0)

\* the same on uint32
Bitwise32(f, x, y) ==
    U32(Bitwise(f, x[1], y[1], 16), Bitwise(f, x[2], y[2], 16))

\* ^x
Not32(x) == U32(W16 - 1 - x[1], W16 - 1 - x[2])

\* x - y mod 2^32
SubU32(x, y) == Add32(AddU32(x, Not32(y)), 1)

\* x > y on uint32
Greater32(x, y) == x[1] > y[1] \/ (x[1] = y[1] /\ x[2] > y[2])

\* result & (the sign bit at the size) != 0
signBit(value, size) ==
    CASE size = 8 -> Bits(value[2], 128, 2) = 1
      [] size = 16 -> Bits(value[2], 32768, 2) = 1
      [] OTHER -> Bits(value[1], 32768, 2) = 1

setFlagsLogical_keepsCarry(c, result, size) ==
    LET sr == WithFlag(c.sr, FlagV, FALSE)
    IN  [c EXCEPT !.sr =
            CASE size = 8 ->
                   WithFlag(WithFlag(sr, FlagN, signBit(result, 8)),
                            FlagZ, result[2] % 256 = 0)
              [] size = 16 ->
                   WithFlag(WithFlag(sr, FlagN, signBit(result, 16)),
                            FlagZ, result[2] = 0)
              [] size = 32 ->
                   WithFlag(WithFlag(sr, FlagN, signBit(result, 32)),
                            FlagZ, result = Zero32)
              [] OTHER -> sr]

\* clear V and C, then N and Z from the result at the size
setFlagsLogical(c, result, size) ==
    LET sr == WithFlag(WithFlag(c.sr, FlagV, FALSE), FlagC, FALSE)
    IN  [c EXCEPT !.sr =
            CASE size = 8 ->
                   WithFlag(WithFlag(sr, FlagN, signBit(result, 8)),
                            FlagZ, result[2] % 256 = 0)
              [] size = 16 ->
                   WithFlag(WithFlag(sr, FlagN, signBit(result, 16)),
                            FlagZ, result[2] = 0)
              [] size = 32 ->
                   WithFlag(WithFlag(sr, FlagN, signBit(result, 32)),
                            FlagZ, result = Zero32)
              [] OTHER -> sr]

\* C and X from the carry (bit 8 or bit 16 of the result, or the 64-bit sum of
\* the operands above 0xFFFFFFFF), V from the sign bits, then setFlagsLogical
setFlagsAdd(c, dest, src, result, size) ==
    LET known == size \in {8, 16, 32}
        sm == known /\ signBit(src, size)
        dm == known /\ signBit(dest, size)
        rm == known /\ signBit(result, size)
        carry == CASE size = 8 -> Bits(result[2], 256, 2) = 1
                   [] size = 16 -> result[1] % 2 = 1
                   [] OTHER -> src[1] + dest[1] + ((src[2] + dest[2]) \div W16)
                               >= W16
        sr1 == IF known
               THEN WithFlag(WithFlag(c.sr, FlagC, carry), FlagX, carry)
               ELSE c.sr
        sr2 == WithFlag(sr1, FlagV,
                        (sm /\ dm /\ ~rm) \/ (~sm /\ ~dm /\ rm))
    IN  setFlagsLogical([c EXCEPT !.sr = sr2], result, size)

\* the borrow is bit 8 or bit 16 of the result, or src > dest
setFlagsSub(c, dest, src, result, size) ==
    LET known == size \in {8, 16, 32}
        sm == known /\ signBit(src, size)
        dm == known /\ signBit(dest, size)
        rm == known /\ signBit(result, size)
        borrow == CASE size = 8 -> Bits(result[2], 256, 2) = 1
                    [] size = 16 -> result[1] % 2 = 1
                    [] OTHER -> Greater32(src, dest)
        sr1 == IF known
               THEN WithFlag(WithFlag(c.sr, FlagC, borrow), FlagX, borrow)
               ELSE c.sr
        sr2 == WithFlag(sr1, FlagV,
                        (~sm /\ dm /\ ~rm) \/ (sm /\ ~dm /\ rm))
    IN  setFlagsLogical([c EXCEPT !.sr = sr2], result, size)

testCondition_leWithoutZ(c, cond) ==
    LET cc == Bits(c.sr, FlagC, 2) = 1
        v == Bits(c.sr, FlagV, 2) = 1
        z == Bits(c.sr, FlagZ, 2) = 1
        n == Bits(c.sr, FlagN, 2) = 1
    IN  CASE cond = CondT -> TRUE
          [] cond = CondF -> FALSE
          [] cond = CondHI -> ~cc /\ ~z
          [] cond = CondLS -> cc \/ z
          [] cond = CondCC -> ~cc
          [] cond = CondCS -> cc
          [] cond = CondNE -> ~z
          [] cond = CondEQ -> z
          [] cond = CondVC -> ~v
          [] cond = CondVS -> v
          [] cond = CondPL -> ~n
          [] cond = CondMI -> n
          [] cond = CondGE -> (n /\ v) \/ (~n /\ ~v)
          [] cond = CondLT -> (n /\ ~v) \/ (~n /\ v)
          [] cond = CondGT -> (n /\ v /\ ~z) \/ (~n /\ ~v /\ ~z)
          [] cond = CondLE -> (n /\ ~v) \/ (~n /\ v)
          [] OTHER -> FALSE

\* the condition of a Bcc, DBcc or Scc on the flags in sr
testCondition(c, cond) ==
    LET cc == Bits(c.sr, FlagC, 2) = 1
        v == Bits(c.sr, FlagV, 2) = 1
        z == Bits(c.sr, FlagZ, 2) = 1
        n == Bits(c.sr, FlagN, 2) = 1
    IN  CASE cond = CondT -> TRUE
          [] cond = CondF -> FALSE
          [] cond = CondHI -> ~cc /\ ~z
          [] cond = CondLS -> cc \/ z
          [] cond = CondCC -> ~cc
          [] cond = CondCS -> cc
          [] cond = CondNE -> ~z
          [] cond = CondEQ -> z
          [] cond = CondVC -> ~v
          [] cond = CondVS -> v
          [] cond = CondPL -> ~n
          [] cond = CondMI -> n
          [] cond = CondGE -> (n /\ v) \/ (~n /\ ~v)
          [] cond = CondLT -> (n /\ ~v) \/ (~n /\ v)
          [] cond = CondGT -> (n /\ v /\ ~z) \/ (~n /\ ~v /\ ~z)
          [] cond = CondLE -> z \/ (n /\ ~v) \/ (~n /\ v)
          [] OTHER -> FALSE

\* value | 0xFFFFFF00 or value & 0xFF
signExtend8(value) ==
    IF Bits(value[2], 128, 2) = 1
    THEN U32(W16 - 1, Bitwise("or", value[2], \hFF00, 16))
    ELSE U32(0, value[2] % 256)

signExtend16(value) ==
    IF Bits(value[2], 32768, 2) = 1
    THEN U32(W16 - 1, value[2])
    ELSE U32(0, value[2])

maskValue(value, size) ==
    CASE size = 8 -> U32(0, value[2] % 256)
      [] size = 16 -> U32(0, value[2])
      [] OTHER -> value

---------------------------------------------------------------------------
(* Effective addresses: readEA, writeEA and the instruction stream.  A      *)
(* function that returns a value and changes the machine returns the pair   *)
(* [val, m].                                                                *)

RV(v, m) == [val |-> v, m |-> m]

readMem(m, address, size) ==
    IF ~m.cpu.memory THEN Zero32
    ELSE CASE size = 8 -> U32(0, Read8(m.ram, address))
           [] size = 16 -> U32(0, Read16(m.ram, address))
           [] size = 32 -> Read32(m.ram, address)
           [] OTHER -> Zero32

writeMem(m, address, value, size) ==
    IF ~m.cpu.memory THEN m
    ELSE CASE size = 8 -> M(m.cpu, Write8(m.ram, address, Trunc8(value)))
           [] size = 16 -> M(m.cpu, Write16(m.ram, address, Trunc16(value)))
           [] size = 32 -> M(m.cpu, Write32(m.ram, address, value))
           [] OTHER -> m

\* readImmediate16 on a machine state, as a uint32
nextWord(m) ==
    LET imm == readImmediate16(m.cpu, m.ram)
    IN  RV(U32(0, imm[1]), M(imm[2], m.ram))

readImmediate32(m) ==
    IF ~m.cpu.memory THEN RV(Zero32, m)
    ELSE RV(Read32(m.ram, m.cpu.pc),
            M([m.cpu EXCEPT !.pc = Add32(m.cpu.pc, 4)], m.ram))

\* the step without the stack-pointer case
eaStep_sizeOnly(reg, size) == size \div 8

\* the step of (An)+ and -(An): size / 8, and 2 for a byte through A7
eaStep(reg, size) ==
    IF size = 8 /\ reg = 7 THEN 2 ELSE size \div 8

\* base + disp8 + index for the extension word ext of (d8,An,Xn): the index
\* register is An or Dn, sign-extended from its low word unless bit 11 is set
eaIndexed(c, base, ext) ==
    LET xn == Bits(ext, 4096, 16)
        long == IF Bits(ext, 32768, 2) = 1 THEN c.a[xn % 8] ELSE c.d[xn % 8]
        index == IF Bits(ext, 2048, 2) = 0 THEN signExtend16(long) ELSE long
    IN  AddU32(AddU32(base, signExtend8(U32(0, ext % 256))), index)

readEA(m, mode, reg, size) ==
    CASE mode = 0 -> RV(maskValue(m.cpu.d[reg], size), m)
      [] mode = 1 -> RV(m.cpu.a[reg], m)
      [] mode = 2 -> RV(readMem(m, m.cpu.a[reg], size), m)
      [] mode = 3 ->
           LET addr == m.cpu.a[reg]
           IN  RV(readMem(m, addr, size),
                  M([m.cpu EXCEPT !.a[reg] = Add32(addr, eaStep(reg, size))],
                    m.ram))
      [] mode = 4 ->
           LET addr == Add32(m.cpu.a[reg], 0 - eaStep(reg, size))
               m1 == M([m.cpu EXCEPT !.a[reg] = addr], m.ram)
           IN  RV(readMem(m1, addr, size), m1)
      [] mode = 5 ->
           LET w == nextWord(m)
               addr == AddU32(m.cpu.a[reg], signExtend16(w.val))
           IN  RV(readMem(w.m, addr, size), w.m)
      [] mode = 6 ->
           LET w == nextWord(m)
               addr == eaIndexed(w.m.cpu, m.cpu.a[reg], w.val[2])
           IN  RV(readMem(w.m, addr, size), w.m)
      [] mode = 7 /\ reg = 0 ->
           LET w == nextWord(m)
           IN  RV(readMem(w.m, signExtend16(w.val), size), w.m)
      [] mode = 7 /\ reg = 1 ->
           LET l == readImmediate32(m)
           IN  RV(readMem(l.m, l.val, size), l.m)
      [] mode = 7 /\ reg = 2 ->
           LET w == nextWord(m)
               addr == AddU32(m.cpu.pc, signExtend16(w.val))
           IN  RV(readMem(w.m, addr, size), w.m)
      [] mode = 7 /\ reg = 3 ->
           LET w == nextWord(m)
               addr == eaIndexed(w.m.cpu, m.cpu.pc, w.val[2])
           IN  RV(readMem(w.m, addr, size), w.m)
      [] mode = 7 /\ reg = 4 /\ size = 8 ->
           LET w == nextWord(m)
           IN  RV(U32(0, w.val[2] % 256), w.m)
      [] mode = 7 /\ reg = 4 /\ size = 16 -> nextWord(m)
      [] mode = 7 /\ reg = 4 /\ size = 32 -> readImmediate32(m)
      [] OTHER -> RV(Zero32, m)

writeEA(m, mode, reg, size, value) ==
    LET v == maskValue(value, size)
    IN  CASE mode = 0 ->
               M([m.cpu EXCEPT !.d[reg] =
                     CASE size = 8 -> U32(@[1], (@[2] \div 256) * 256 + (v[2] % 256))
                       [] size = 16 -> U32(@[1], v[2])
                       [] size = 32 -> v
                       [] OTHER -> @],
                 m.ram)
          [] mode = 1 -> M([m.cpu EXCEPT !.a[reg] = v], m.ram)
          [] mode = 2 -> writeMem(m, m.cpu.a[reg], v, size)
          [] mode = 3 ->
               LET addr == m.cpu.a[reg]
                   m1 == writeMem(m, addr, v, size)
               IN  M([m1.cpu EXCEPT !.a[reg] = Add32(addr, eaStep(reg, size))],
                     m1.ram)
          [] mode = 4 ->
               LET addr == Add32(m.cpu.a[reg], 0 - eaStep(reg, size))
               IN  writeMem(M([m.cpu EXCEPT !.a[reg] = addr], m.ram),
                            addr, v, size)
          [] mode = 5 ->
               LET w == nextWord(m)
               IN  writeMem(w.m, AddU32(m.cpu.a[reg], signExtend16(w.val)),
                            v, size)
          [] mode = 6 ->
               LET w == nextWord(m)
               IN  writeMem(w.m, eaIndexed(w.m.cpu, m.cpu.a[reg], w.val[2]),
                            v, size)
          [] mode = 7 /\ reg = 0 ->
               LET w == nextWord(m)
               IN  writeMem(w.m, signExtend16(w.val), v, size)
          [] mode = 7 /\ reg = 1 ->
               LET l == readImmediate32(m)
               IN  writeMem(l.m, l.val, v, size)
          [] OTHER -> m

\* (opcode >> shift) & mask, for a mask of low bits
Field(opcode, shift, mask) == (opcode \div (2 ^ shift)) % (mask + 1)

getSize(opcode, shift) ==
    CASE Field(opcode, shift, 3) = 0 -> 8
      [] Field(opcode, shift, 3) = 1 -> 16
      [] Field(opcode, shift, 3) = 2 -> 32
      [] OTHER -> 8

\* useCycles on a machine state
charge(m, n) == M(useCycles(m.cpu, n), m.ram)

---------------------------------------------------------------------------
(* Instruction handlers: instructions.go and the handlers of opcodes.go.    *)
(* A handler runs on the machine as the fetch left it, pc behind the        *)
(* opcode word.                                                             *)

\* the size of a MOVE from bits 12-13: 1 byte, 3 word, 2 long
moveSize(opcode) ==
    IF getSize(opcode, 12) = 32 THEN 32
    ELSE IF Field(opcode, 12, 3) = 1 THEN 8
    ELSE IF Field(opcode, 12, 3) = 3 THEN 16
    ELSE 32

opMOVE(m, opcode) ==
    LET size == moveSize(opcode)
        s == readEA(m, Field(opcode, 3, 7), Field(opcode, 0, 7), size)
        w == writeEA(s.m, Field(opcode, 6, 7), Field(opcode, 9, 7), size, s.val)
    IN  charge(M(setFlagsLogical(w.cpu, s.val, size), w.ram), 4)

opMOVEQ(m, opcode) ==
    LET reg == Field(opcode, 9, 7)
        data == signExtend8(U32(0, opcode % 256))
        moved == [m.cpu EXCEPT !.d[reg] = data]
    IN  charge(M(setFlagsLogical(moved, data, 32), m.ram), 4)

opADD(m, opcode) ==
    LET dataReg == Field(opcode, 9, 7)
        direction == Field(opcode, 8, 1)
        size == getSize(opcode, 6)
        eaMode == Field(opcode, 3, 7)
        eaReg == Field(opcode, 0, 7)
    IN  IF direction = 0
        THEN LET s == readEA(m, eaMode, eaReg, size)
                 src == s.val
                 dest == maskValue(m.cpu.d[dataReg], size)
                 result == AddU32(dest, src)
                 flagged == M(setFlagsAdd(s.m.cpu, dest, src, result, size),
                              s.m.ram)
             IN  charge(writeEA(flagged, 0, dataReg, size, result), 4)
        ELSE LET src == maskValue(m.cpu.d[dataReg], size)
                 e == readEA(m, eaMode, eaReg, size)
                 dest == e.val
                 result == AddU32(dest, src)
                 flagged == M(setFlagsAdd(e.m.cpu, dest, src, result, size),
                              e.m.ram)
             IN  charge(writeEA(flagged, eaMode, eaReg, size, result), 4)

opADDQ(m, opcode) ==
    LET q == Field(opcode, 9, 7)
        src == U32(0, IF q = 0 THEN 8 ELSE q)
        size == getSize(opcode, 6)
        eaMode == Field(opcode, 3, 7)
        eaReg == Field(opcode, 0, 7)
    IN  IF eaMode = 1
        THEN charge(M([m.cpu EXCEPT !.a[eaReg] = AddU32(@, src)], m.ram), 4)
        ELSE LET e == readEA(m, eaMode, eaReg, size)
                 dest == e.val
                 result == AddU32(dest, src)
                 flagged == M(setFlagsAdd(e.m.cpu, dest, src, result, size),
                              e.m.ram)
             IN  charge(writeEA(flagged, eaMode, eaReg, size, result), 4)

opAND(m, opcode) ==
    LET dataReg == Field(opcode, 9, 7)
        direction == Field(opcode, 8, 1)
        size == getSize(opcode, 6)
        eaMode == Field(opcode, 3, 7)
        eaReg == Field(opcode, 0, 7)
    IN  IF direction = 0
        THEN LET s == readEA(m, eaMode, eaReg, size)
                 src == s.val
                 dest == maskValue(m.cpu.d[dataReg], size)
                 result == Bitwise32("and", dest, src)
                 flagged == M(setFlagsLogical(s.m.cpu, result, size), s.m.ram)
             IN  charge(writeEA(flagged, 0, dataReg, size, result), 4)
        ELSE LET src == maskValue(m.cpu.d[dataReg], size)
                 e == readEA(m, eaMode, eaReg, size)
                 dest == e.val
                 result == Bitwise32("and", dest, src)
                 flagged == M(setFlagsLogical(e.m.cpu, result, size), e.m.ram)
             IN  charge(writeEA(flagged, eaMode, eaReg, size, result), 4)

opANDI(m, opcode) ==
    LET size == getSize(opcode, 6)
        eaMode == Field(opcode, 3, 7)
        eaReg == Field(opcode, 0, 7)
        s == readEA(m, 7, 4, size)
        src == s.val
        e == readEA(s.m, eaMode, eaReg, size)
        dest == e.val
        result == Bitwise32("and", dest, src)
        flagged == M(setFlagsLogical(e.m.cpu, result, size), e.m.ram)
    IN  charge(writeEA(flagged, eaMode, eaReg, size, result), 8)

opOR(m, opcode) ==
    LET dataReg == Field(opcode, 9, 7)
        direction == Field(opcode, 8, 1)
        size == getSize(opcode, 6)
        eaMode == Field(opcode, 3, 7)
        eaReg == Field(opcode, 0, 7)
    IN  IF direction = 0
        THEN LET s == readEA(m, eaMode, eaReg, size)
                 src == s.val
                 dest == maskValue(m.cpu.d[dataReg], size)
                 result == Bitwise32("or", dest, src)
                 flagged == M(setFlagsLogical(s.m.cpu, result, size), s.m.ram)
             IN  charge(writeEA(flagged, 0, dataReg, size, result), 4)
        ELSE LET src == maskValue(m.cpu.d[dataReg], size)
                 e == readEA(m, eaMode, eaReg, size)
                 dest == e.val
                 result == Bitwise32("or", dest, src)
                 flagged == M(setFlagsLogical(e.m.cpu, result, size), e.m.ram)
             IN  charge(writeEA(flagged, eaMode, eaReg, size, result), 4)

opORI(m, opcode) ==
    LET size == getSize(opcode, 6)
        eaMode == Field(opcode, 3, 7)
        eaReg == Field(opcode, 0, 7)
        s == readEA(m, 7, 4, size)
        src == s.val
        e == readEA(s.m, eaMode, eaReg, size)
        dest == e.val
        result == Bitwise32("or", dest, src)
        flagged == M(setFlagsLogical(e.m.cpu, result, size), e.m.ram)
    IN  charge(writeEA(flagged, eaMode, eaReg, size, result), 8)

opEOR(m, opcode) ==
    LET dataReg == Field(opcode, 9, 7)
        size == getSize(opcode, 6)
        eaMode == Field(opcode, 3, 7)
        eaReg == Field(opcode, 0, 7)
        src == maskValue(m.cpu.d[dataReg], size)
        e == readEA(m, eaMode, eaReg, size)
        dest == e.val
        result == Bitwise32("xor", dest, src)
        flagged == M(setFlagsLogical(e.m.cpu, result, size), e.m.ram)
    IN  charge(writeEA(flagged, eaMode, eaReg, size, result), 4)

opEORI(m, opcode) ==
    LET size == getSize(opcode, 6)
        eaMode == Field(opcode, 3, 7)
        eaReg == Field(opcode, 0, 7)
        s == readEA(m, 7, 4, size)
        src == s.val
        e == readEA(s.m, eaMode, eaReg, size)
        dest == e.val
        result == Bitwise32("xor", dest, src)
        flagged == M(setFlagsLogical(e.m.cpu, result, size), e.m.ram)
    IN  charge(writeEA(flagged, eaMode, eaReg, size, result), 8)

opNOT(m, opcode) ==
    LET size == getSize(opcode, 6)
        eaMode == Field(opcode, 3, 7)
        eaReg == Field(opcode, 0, 7)
        e == readEA(m, eaMode, eaReg, size)
        result == Not32(e.val)
        flagged == M(setFlagsLogical(e.m.cpu, result, size), e.m.ram)
    IN  charge(writeEA(flagged, eaMode, eaReg, size, result), 4)

opNEG(m, opcode) ==
    LET size == getSize(opcode, 6)
        eaMode == Field(opcode, 3, 7)
        eaReg == Field(opcode, 0, 7)
        e == readEA(m, eaMode, eaReg, size)
        dest == e.val
        result == SubU32(Zero32, dest)
        flagged == M(setFlagsSub(e.m.cpu, Zero32, dest, result, size), e.m.ram)
    IN  charge(writeEA(flagged, eaMode, eaReg, size, result), 4)

opTST(m, opcode) ==
    LET size == getSize(opcode, 6)
        e == readEA(m, Field(opcode, 3, 7), Field(opcode, 0, 7), size)
    IN  charge(M(setFlagsLogical(e.m.cpu, e.val, size), e.m.ram), 4)

\* a stub: nothing but the cycles
opIllegal(m, opcode) == charge(m, 4)

\* the reset callback is called if set; the machine is left alone
opRESET(m) == charge(m, 132)

\* the test of V guards an empty block
opTRAPV(m) == charge(m, 4)

opMOVEUSP(m, opcode) ==
    LET reg == Field(opcode, 0, 7)
    IN  IF Bits(opcode, 8, 2) # 0
        THEN charge(M([m.cpu EXCEPT !.a[reg] = m.cpu.usp], m.ram), 4)
        ELSE charge(M([m.cpu EXCEPT !.usp = m.cpu.a[reg]], m.ram), 4)

opCHK(m, opcode) == charge(m, 10)

opDIVU(m, opcode) == charge(m, 140)

---------------------------------------------------------------------------
(* Returns, calls and branches: opRTE and opBSR of opcodes.go, opJSR,       *)
(* opRTS, opBcc and opDBcc of instructions.go, and the branch target the    *)
(* disassembler prints. opBRA is opBcc with the branch always taken.        *)

opRTE_pcBeforeSr(m) ==
    LET c == m.cpu
        pc == IF c.memory THEN Read32(m.ram, c.a[7]) ELSE Zero32
        sp1 == IF c.memory THEN Add32(c.a[7], 4) ELSE c.a[7]
        sr == IF c.memory THEN Read16(m.ram, sp1) ELSE 0
        sp2 == IF c.memory THEN Add32(sp1, 2) ELSE sp1
    IN  charge(M([c EXCEPT !.sr = sr, !.pc = pc, !.a[7] = sp2], m.ram), 20)

\* sr := popWord(), pc := popLong(); without memory a pop returns 0 and
\* leaves a[7] alone
opRTE(m) ==
    LET c == m.cpu
        sr == IF c.memory THEN Read16(m.ram, c.a[7]) ELSE 0
        sp1 == IF c.memory THEN Add32(c.a[7], 2) ELSE c.a[7]
        pc == IF c.memory THEN Read32(m.ram, sp1) ELSE Zero32
        sp2 == IF c.memory THEN Add32(sp1, 4) ELSE sp1
    IN  charge(M([c EXCEPT !.sr = sr, !.pc = pc, !.a[7] = sp2], m.ram), 20)

\* pc := popLong()
opRTS(m) ==
    LET c == m.cpu
    IN  IF c.memory
        THEN charge(M([c EXCEPT !.pc = Read32(m.ram, c.a[7]),
                                !.a[7] = Add32(c.a[7], 4)], m.ram), 16)
        ELSE charge(M([c EXCEPT !.pc = Zero32], m.ram), 16)

opJSR_pushesTarget(m, opcode) ==
    LET eaMode == Field(opcode, 3, 7)
        eaReg == Field(opcode, 0, 7)
        w == nextWord(m)
        l == readImmediate32(m)
        ea == CASE eaMode = 2 -> RV(m.cpu.a[eaReg], m)
                [] eaMode = 5 ->
                     RV(AddU32(m.cpu.a[eaReg], signExtend16(w.val)), w.m)
                [] eaMode = 6 ->
                     RV(eaIndexed(m.cpu, m.cpu.a[eaReg], w.val[2]), w.m)
                [] eaMode = 7 /\ eaReg = 0 -> RV(signExtend16(w.val), w.m)
                [] eaMode = 7 /\ eaReg = 1 -> l
                [] eaMode = 7 /\ eaReg = 2 ->
                     RV(AddU32(m.cpu.pc, signExtend16(w.val)), w.m)
                [] eaMode = 7 /\ eaReg = 3 ->
                     RV(eaIndexed(m.cpu, m.cpu.pc, w.val[2]), w.m)
                [] OTHER -> RV(Zero32, m)
        pushed == pushLong(ea.m, ea.val)
    IN  charge(M([pushed.cpu EXCEPT !.pc = ea.val], pushed.ram), 16)

\* the target is computed as opJMP computes it (zero for the modes that have
\* no case), then the pc behind the extension words is pushed
opJSR(m, opcode) ==
    LET eaMode == Field(opcode, 3, 7)
        eaReg == Field(opcode, 0, 7)
        w == nextWord(m)
        l == readImmediate32(m)
        ea == CASE eaMode = 2 -> RV(m.cpu.a[eaReg], m)
                [] eaMode = 5 ->
                     RV(AddU32(m.cpu.a[eaReg], signExtend16(w.val)), w.m)
                [] eaMode = 6 ->
                     RV(eaIndexed(m.cpu, m.cpu.a[eaReg], w.val[2]), w.m)
                [] eaMode = 7 /\ eaReg = 0 -> RV(signExtend16(w.val), w.m)
                [] eaMode = 7 /\ eaReg = 1 -> l
                [] eaMode = 7 /\ eaReg = 2 ->
                     RV(AddU32(m.cpu.pc, signExtend16(w.val)), w.m)
                [] eaMode = 7 /\ eaReg = 3 ->
                     RV(eaIndexed(m.cpu, m.cpu.pc, w.val[2]), w.m)
                [] OTHER -> RV(Zero32, m)
        pushed == pushLong(ea.m, ea.m.cpu.pc)
    IN  charge(M([pushed.cpu EXCEPT !.pc = ea.val], pushed.ram), 16)

\* the displacement is the low byte of the opcode, or the next word if that
\* byte is zero; it is added to pc as the reads have left it
opBcc(m, opcode) ==
    LET cond == Field(opcode, 8, 15)
        w == nextWord(m)
        d == IF opcode % 256 # 0
             THEN RV(signExtend8(U32(0, opcode % 256)), m)
             ELSE RV(signExtend16(w.val), w.m)
    IN  IF testCondition(d.m.cpu, cond)
        THEN charge(M([d.m.cpu EXCEPT !.pc = AddU32(@, d.val)], d.m.ram), 10)
        ELSE charge(d.m, 8)

opBSR(m, opcode) ==
    LET w == nextWord(m)
        d == IF opcode % 256 # 0
             THEN RV(signExtend8(U32(0, opcode % 256)), m)
             ELSE RV(signExtend16(w.val), w.m)
        pushed == pushLong(d.m, d.m.cpu.pc)
    IN  charge(M([pushed.cpu EXCEPT !.pc = AddU32(@, d.val)], pushed.ram),
               18)

opDBcc_decrementsLong(m, opcode) ==
    LET cond == Field(opcode, 8, 15)
        reg == Field(opcode, 0, 7)
        w == nextWord(m)
        c == w.m.cpu
        dn == Add32(c.d[reg], -1)
    IN  IF ~testCondition(c, cond) /\ dn[2] # W16 - 1
        THEN charge(M([c EXCEPT !.d[reg] = dn,
                          !.pc = Add32(AddU32(@, signExtend16(w.val)), -2)],
                      w.m.ram), 10)
        ELSE IF ~testCondition(c, cond)
        THEN charge(M([c EXCEPT !.d[reg] = dn], w.m.ram), 12)
        ELSE charge(w.m, 12)

\* the displacement word is read first; the branch counts from its address,
\* pc - 2 after the read
opDBcc(m, opcode) ==
    LET cond == Field(opcode, 8, 15)
        reg == Field(opcode, 0, 7)
        w == nextWord(m)
        c == w.m.cpu
        dn == U32(c.d[reg][1], (c.d[reg][2] + W16 - 1) % W16)
    IN  IF ~testCondition(c, cond) /\ dn[2] # W16 - 1
        THEN charge(M([c EXCEPT !.d[reg] = dn,
                          !.pc = Add32(AddU32(@, signExtend16(w.val)), -2)],
                      w.m.ram), 10)
        ELSE IF ~testCondition(c, cond)
        THEN charge(M([c EXCEPT !.d[reg] = dn], w.m.ram), 12)
        ELSE charge(w.m, 12)

\* the target Disassemble(address) prints for an opcode of group 6, as eight
\* hex digits, that is the whole uint32, and the size it returns; pc is
\* address + 2, where Disassemble reads on
disasm6(r, opcode, address) ==
    LET pc == Add32(address, 2)
        disp == IF opcode % 256 # 0 THEN signExtend8(U32(0, opcode % 256))
                ELSE signExtend16(U32(0, Read16(r, pc)))
    IN  [ target |-> AddU32(Add32(address, 2), disp),
          size |-> IF opcode % 256 # 0 THEN 2 ELSE 4 ]

---------------------------------------------------------------------------
(* Instructions run one after another on a CPU with memory: the registers   *)
(* hold operands, pc stands behind an opcode word at 0x400, and the words   *)
(* that follow serve as immediates, displacements and absolute addresses.   *)

\* extension words at 0x402 .. 0x408, operands around 0x2000 and 0x3000,
\* exception vectors 4, 5, 6, 7, 8, 10 and 11
InstrImage ==
    LET words == { <<\h0402, \h0010>>, <<\h0404, \h0020>>,
                   <<\h0406, \h0030>>, <<\h0408, \h0040>>,
                   <<\h1FFC, \h8000>>, <<\h1FFE, \h0001>>,
                   <<\h2000, \h00FF>>, <<\h2002, \h7FFF>>,
                   <<\h2010, \hFFFF>>, <<\h3000, \h8001>>,
                   <<\h0012, \h0700>>, <<\h0016, \h0704>>,
                   <<\h001A, \h0708>>, <<\h001E, \h070C>>,
                   <<\h0022, \h0710>>, <<\h002A, \h0714>>,
                   <<\h002E, \h0718>> }
        bytes == { <<w[1], w[2] \div 256>> : w \in words }
                     \cup { <<w[1] + 1, w[2] % 256>> : w \in words }
        stored == { b \in bytes : b[2] # 0 }
    IN  [x \in { b[1] : b \in stored } |->
            (CHOOSE b \in stored : b[1] = x)[2]]

\* the CPU after the fetch of an opcode at 0x400
InstrCPU(sr, reset) ==
    [NewCPU(CPU68000) EXCEPT
        !.memory = TRUE,
        !.resetCallback = reset,
        !.sr = sr,
        !.pc = U32(0, \h0402),
        !.d = [i \in Regs |-> CASE i = 0 -> U32(\h1234, \h80FF)
                                [] i = 1 -> U32(0, 1)
                                [] OTHER -> Zero32],
        !.a = [i \in Regs |-> CASE i = 0 -> U32(0, \h2000)
                                [] i = 1 -> U32(0, \h3000)
                                [] i = 7 -> U32(0, \h1000)
                                [] OTHER -> Zero32],
        !.usp = U32(0, \h0800)]

\* one of the CPUs, over the memory image
InitInstr(cpus, image) ==
    /\ cpu \in cpus
    /\ ram = image
    /\ pos = "idle"
    /\ op = "NewCPU"
    /\ arg = <<>>
    /\ exec = NoExec
    /\ ctx = {}
    /\ resetRun = 0
    /\ nops = 0
    /\ thr = OneThread

\* one more instruction or flag function runs; arg keeps its arguments
Handler(name, a) ==
    /\ pos = "idle"
    /\ nops < MaxInstr
    /\ nops' = nops + 1
    /\ op' = name
    /\ arg' = a
    /\ UNCHANGED <<pos, exec, ctx, resetRun, thr>>

\* the decoder has called a handler on the opcode and m is the machine it
\* leaves; for RESET arg also keeps whether the reset callback was called
Run(name, opcode, m) ==
    /\ Handler(name, IF name = "opRESET" THEN <<opcode, cpu.resetCallback>>
                                         ELSE <<opcode>>)
    /\ cpu' = m.cpu
    /\ ram' = m.ram

---------------------------------------------------------------------------
(* The flag functions, called on operands as the instruction handlers pass  *)
(* them: masked to the size of the operation.                               *)

\* <<dest, src>>
OperandInputs ==
    { <<U32(0, 0), U32(0, 0)>>,
      <<U32(0, 5), U32(0, 3)>>,
      <<U32(0, 0), U32(0, 1)>>,
      <<U32(0, \h7F), U32(0, 1)>>,
      <<U32(0, \h80), U32(0, 1)>>,
      <<U32(0, \hFF), U32(0, 1)>>,
      <<U32(0, \h80), U32(0, \h80)>>,
      <<U32(0, \h7FFF), U32(0, 1)>>,
      <<U32(0, \h8000), U32(0, 1)>>,
      <<U32(0, \hFFFF), U32(0, 1)>>,
      <<U32(\h7FFF, \hFFFF), U32(0, 1)>>,
      <<U32(\h8000, 0), U32(0, 1)>>,
      <<U32(\hFFFF, \hFFFF), U32(0, 1)>>,
      <<U32(\h8000, 0), U32(\h8000, 0)>> }

CallSetFlagsLogical(result, size) ==
    /\ result = maskValue(result, size)
    /\ Handler("setFlagsLogical", <<result, size>>)
    /\ cpu' = setFlagsLogical(cpu, result, size)
    /\ ram' = ram

\* result := dest + src, as opADD, opADDI and opADDQ compute it
CallSetFlagsAdd(dest, src, size) ==
    /\ dest = maskValue(dest, size)
    /\ src = maskValue(src, size)
    /\ Handler("setFlagsAdd", <<dest, src, size>>)
    /\ cpu' = setFlagsAdd(cpu, dest, src, AddU32(dest, src), size)
    /\ ram' = ram

\* result := dest - src, as opSUB, opSUBI, opSUBQ, opNEG and opCMP compute it
CallSetFlagsSub(dest, src, size) ==
    /\ dest = maskValue(dest, size)
    /\ src = maskValue(src, size)
    /\ Handler("setFlagsSub", <<dest, src, size>>)
    /\ cpu' = setFlagsSub(cpu, dest, src, SubU32(dest, src), size)
    /\ ram' = ram

\* arg keeps the condition and what testCondition returned
CallTestCondition(cond) ==
    /\ Handler("testCondition", <<cond, testCondition(cpu, cond)>>)
    /\ UNCHANGED <<cpu, ram>>

NextFlags ==
    \/ \E in \in OperandInputs, size \in {8, 16, 32} :
          CallSetFlagsLogical(in[1], size)
    \/ \E in \in OperandInputs, size \in {8, 16, 32} :
          CallSetFlagsAdd(in[1], in[2], size)
    \/ \E in \in OperandInputs, size \in {8, 16, 32} :
          CallSetFlagsSub(in[1], in[2], size)
    \/ \E cond \in CondT .. CondLE : CallTestCondition(cond)

\* from every combination of X, N, Z, V, C, in user mode and under T, S, mask 7
SpecFlags ==
    /\ InitInstr({[NewCPU(CPU68000) EXCEPT !.sr = upper + ccr] :
                     upper \in {\h0000, \hA700}, ccr \in 0 .. 31}, Blank)
    /\ [][NextFlags]_vars

---------------------------------------------------------------------------
(* Logical instructions, and setFlagsLogical on its own, from user and      *)
(* supervisor mode with the flags clear and set                             *)

NextLogical ==
    \/ \E result \in {U32(0, 0), U32(0, \h80), U32(0, \h8000), U32(\h8000, 1)},
          size \in {8, 16, 32} : CallSetFlagsLogical(result, size)
    \* AND.B D1,D0  AND.W (A0),D0  AND.L D1,(A0)
    \/ \E opcode \in {\hC001, \hC050, \hC390} :
          Run("opAND", opcode, opAND(M(cpu, ram), opcode))
    \* OR.B D1,D0  OR.L D0,(A0)
    \/ \E opcode \in {\h8001, \h8190} :
          Run("opOR", opcode, opOR(M(cpu, ram), opcode))
    \* EOR.B D0,D1  EOR.W D1,(A0)
    \/ \E opcode \in {\hB101, \hB350} :
          Run("opEOR", opcode, opEOR(M(cpu, ram), opcode))
    \* NOT.B D0  NOT.W D0  NOT.L D0  NOT.W (A0)
    \/ \E opcode \in {\h4600, \h4640, \h4680, \h4650} :
          Run("opNOT", opcode, opNOT(M(cpu, ram), opcode))
    \* TST.B D0  TST.W D1  TST.L (A0)
    \/ \E opcode \in {\h4A00, \h4A41, \h4A90} :
          Run("opTST", opcode, opTST(M(cpu, ram), opcode))
    \* MOVE.B D0,D1  MOVE.W (A0),D1  MOVE.L D0,(A1)
    \/ \E opcode \in {\h1200, \h3210, \h2280} :
          Run("opMOVE", opcode, opMOVE(M(cpu, ram), opcode))
    \* MOVEQ #0,D0  MOVEQ #$42,D0  MOVEQ #-1,D0  MOVEQ #-128,D1
    \/ \E opcode \in {\h7000, \h7042, \h70FF, \h7280} :
          Run("opMOVEQ", opcode, opMOVEQ(M(cpu, ram), opcode))
    \* ANDI.B #,D0  ANDI.W #,D1
    \/ \E opcode \in {\h0200, \h0241} :
          Run("opANDI", opcode, opANDI(M(cpu, ram), opcode))
    \* ORI.B #,D0  ORI.L #,D0
    \/ \E opcode \in {\h0000, \h0080} :
          Run("opORI", opcode, opORI(M(cpu, ram), opcode))
    \* EORI.B #,D0  EORI.W #,D0
    \/ \E opcode \in {\h0A00, \h0A40} :
          Run("opEORI", opcode, opEORI(M(cpu, ram), opcode))

SpecLogical ==
    /\ InitInstr({InstrCPU(sr, FALSE) :
                     sr \in {\h0000, \h001F, \h2700, \hA71F}}, InstrImage)
    /\ [][NextLogical]_vars

---------------------------------------------------------------------------
(* Read-modify-write instructions on a memory destination *)

NextReadModifyWrite ==
    \* ADD.W D1,(A0)+  ADD.B D1,-(A0)  ADD.L D1,(d16,A0)
    \/ \E opcode \in {\hD358, \hD320, \hD3A8} :
          Run("opADD", opcode, opADD(M(cpu, ram), opcode))
    \* AND.B D1,-(A7)  AND.W D1,(d8,A0,Xn)
    \/ \E opcode \in {\hC327, \hC370} :
          Run("opAND", opcode, opAND(M(cpu, ram), opcode))
    \* OR.L D1,(A0)+  OR.W D1,(xxx).L
    \/ \E opcode \in {\h8398, \h8379} :
          Run("opOR", opcode, opOR(M(cpu, ram), opcode))
    \* EOR.W D1,(A0)+  EOR.B D1,(d16,A0)
    \/ \E opcode \in {\hB358, \hB328} :
          Run("opEOR", opcode, opEOR(M(cpu, ram), opcode))
    \* ANDI.W #,(xxx).W  ANDI.B #,-(A0)
    \/ \E opcode \in {\h0278, \h0220} :
          Run("opANDI", opcode, opANDI(M(cpu, ram), opcode))
    \* ORI.W #,(A0)+  ORI.L #,(d16,A0)
    \/ \E opcode \in {\h0058, \h00A8} :
          Run("opORI", opcode, opORI(M(cpu, ram), opcode))
    \* EORI.L #,-(A0)
    \/ \E opcode \in {\h0AA0} :
          Run("opEORI", opcode, opEORI(M(cpu, ram), opcode))
    \* ADDQ.W #1,(A0)+  ADDQ.L #8,(d16,A1)  ADDQ.W #1,(xxx).L
    \/ \E opcode \in {\h5258, \h50A9, \h5279} :
          Run("opADDQ", opcode, opADDQ(M(cpu, ram), opcode))
    \* NOT.W (A0)+  NOT.B (d8,A0,Xn)  NOT.W (A0)
    \/ \E opcode \in {\h4658, \h4630, \h4650} :
          Run("opNOT", opcode, opNOT(M(cpu, ram), opcode))
    \* NEG.W -(A0)  NEG.L (A0)+
    \/ \E opcode \in {\h4460, \h4498} :
          Run("opNEG", opcode, opNEG(M(cpu, ram), opcode))

SpecReadModifyWrite ==
    /\ InitInstr({InstrCPU(sr, FALSE) : sr \in {\h0000, \h2700}}, InstrImage)
    /\ [][NextReadModifyWrite]_vars

---------------------------------------------------------------------------
(* Privileged instructions and exception conditions, in user and in         *)
(* supervisor mode, with and without a reset callback                       *)

NextPrivileged ==
    \/ Run("opSTOP", \h4E72, M(opSTOP(cpu, ram), ram))
    \/ Run("opRESET", \h4E70, opRESET(M(cpu, ram)))
    \* MOVE A0,USP  MOVE A1,USP  MOVE USP,A0  MOVE USP,A1
    \/ \E opcode \in {\h4E60, \h4E61, \h4E68, \h4E69} :
          Run("opMOVEUSP", opcode, opMOVEUSP(M(cpu, ram), opcode))
    \* ILLEGAL, a line-A and a line-F opcode
    \/ \E opcode \in {\h4AFC, \hA000, \hFFFF} :
          Run("opIllegal", opcode, opIllegal(M(cpu, ram), opcode))
    \/ Run("opTRAPV", \h4E76, opTRAPV(M(cpu, ram)))
    \* CHK D1,D0 with D0.w negative
    \/ Run("opCHK", \h4181, opCHK(M(cpu, ram), \h4181))
    \* DIVU D2,D0 with D2.w zero
    \/ Run("opDIVU", \h80C2, opDIVU(M(cpu, ram), \h80C2))

SpecPrivileged ==
    /\ InitInstr({InstrCPU(sr, reset) :
                     sr \in {\h0000, \h001F, \h2700, \hA71F},
                     reset \in BOOLEAN}, InstrImage)
    /\ [][NextPrivileged]_vars

---------------------------------------------------------------------------
(* Handlers of returns, calls and branches, and an interrupt accepted       *)
(* between them. DBF D0,-2 stands at 0x400 as a loop of one instruction:    *)
(* D0.w holds its count and D3 keeps the count it was entered with.         *)

\* the CPUs differ in <<sr, irqLevel, count>> and in the CPU type
SpecHandlers ==
    /\ InitInstr(
          {[SetIRQ(InstrCPU(in[1], FALSE), in[2]) EXCEPT
               !.cpuType = t,
               !.d[0] = U32(\h1234, in[3]),
               !.d[3] = U32(0, in[3])] :
             in \in {<<\h0000, 3, 0>>, <<\h0004, 7, 1>>, <<\h2308, 5, 1>>,
                     <<\hA71F, 7, 0>>, <<\h2700, 3, 1>>, <<\h8011, 1, 0>>},
             t \in CpuTypes},
          Write16(Write16(InstrImage, U32(0, \h0400), \h51C8),
                  U32(0, \h0402), \hFFFE))
    /\ [][
         \* checkInterrupts accepts the pending interrupt; arg keeps pc, sr
         \* and a[7] as they were
         \/ /\ interruptTaken(cpu)
            /\ Handler("handleInterrupt", <<cpu.pc, cpu.sr, cpu.a[7]>>)
            /\ \E m \in {checkInterrupts(M(cpu, ram))} :
                  cpu' = m.cpu /\ ram' = m.ram
         \/ Run("opRTE", \h4E73, opRTE(M(cpu, ram)))
         \/ Run("opRTS", \h4E75, opRTS(M(cpu, ram)))
         \* JSR (A0)  (d16,A0)  (d8,A0,Xn)  (xxx).W  (xxx).L  (d16,PC)
         \* (d8,PC,Xn)
         \/ \E opcode \in {\h4E90, \h4EA8, \h4EB0, \h4EB8, \h4EB9, \h4EBA,
                          \h4EBB} :
               Run("opJSR", opcode, opJSR(M(cpu, ram), opcode))
         \* BEQ +4  BEQ -2  BEQ.W  BNE +4  BGT.W  BMI.W
         \/ \E opcode \in {\h6704, \h67FE, \h6700, \h6604, \h6E00, \h6B00} :
               Run("opBcc", opcode, opBcc(M(cpu, ram), opcode))
         \* BSR +4  BSR -128  BSR.W
         \/ \E opcode \in {\h6104, \h6180, \h6100} :
               Run("opBSR", opcode, opBSR(M(cpu, ram), opcode))
         \* DBF D0  DBEQ D0  DBMI D0
         \/ \E opcode \in {\h51C8, \h57C8, \h5BC8} :
               Run("opDBcc", opcode, opDBcc(M(cpu, ram), opcode))
         \* the DBF at 0x400 has branched back to itself and is fetched
         \* again (readImmediate16: pc += 2)
         \/ /\ pos = "idle" /\ nops < MaxInstr
            /\ op = "opDBcc" /\ arg = <<\h51C8>>
            /\ cpu.pc = U32(0, \h0400)
            /\ Read16(ram, cpu.pc) = \h51C8
            /\ op' = "readImmediate16"
            /\ cpu' = [cpu EXCEPT !.pc = Add32(@, 2)]
            /\ UNCHANGED <<arg, ram, nops, pos, exec, ctx, resetRun, thr>>
       ]_vars

---------------------------------------------------------------------------
(* Single calls of readEA and writeEA, in every addressing mode; arg keeps  *)
(* mode, reg and size, and the value read or written.                       *)

SpecOperands ==
    /\ InitInstr({InstrCPU(sr, FALSE) : sr \in {\h0000, \h2700}}, InstrImage)
    /\ [][
         \* a word through D1/A1 and a byte through D7/A7 in the modes with a
         \* register, a byte and a long through (A1)+ and -(A1), a word in
         \* the modes (xxx).W, (xxx).L, (d16,PC), (d8,PC,Xn) and #imm
         \/ \E in \in {<<mode, 1, 16>> : mode \in 0 .. 6}
                      \cup {<<mode, 7, 8>> : mode \in 0 .. 6}
                      \cup {<<mode, 1, size>> : mode \in {3, 4}, size \in {8, 32}}
                      \cup {<<7, reg, 16>> : reg \in 0 .. 4} :
               \E r \in {readEA(M(cpu, ram), in[1], in[2], in[3])} :
                  /\ Handler("readEA", <<in[1], in[2], in[3], r.val>>)
                  /\ cpu' = r.m.cpu
                  /\ ram' = r.m.ram
         \/ \E in \in {<<mode, 1, 16>> : mode \in 0 .. 6}
                      \cup {<<mode, 7, 8>> : mode \in 0 .. 6}
                      \cup {<<mode, 1, size>> : mode \in {3, 4}, size \in {8, 32}}
                      \cup {<<7, reg, 16>> : reg \in 0 .. 1},
               value \in {U32(\hABCD, \h1235)} :
               \E m \in {writeEA(M(cpu, ram), in[1], in[2], in[3], value)} :
                  /\ Handler("writeEA", <<in[1], in[2], in[3], value>>)
                  /\ cpu' = m.cpu
                  /\ ram' = m.ram
       ]_vars

---------------------------------------------------------------------------
(* Instruction boundaries under an interrupt line the host holds at one     *)
(* level: the host resets the CPU, sets sr and runs it for 56 cycles, long  *)
(* enough for a second acceptance. The reset vector and the autovector of   *)
(* level 5 hold odd addresses.                                              *)

SpecBoundaries ==
    /\ InitInstr(
          {SetIRQ([NewCPU(t) EXCEPT !.memory = TRUE], level) :
             t \in CpuTypes, level \in 1 .. 7},
          Write32(Write32(Vectors, U32(0, 4), U32(0, \h0401)),
                  U32(0, \h74), U32(0, \h0701)))
    /\ [][
         \/ CallReset
         \/ CallSetSR(\h2000)
         \/ CallExecute(56)
         \/ ExecuteStep(<<"none", 0>>)
         \/ ExecuteReturn
       ]_vars

---------------------------------------------------------------------------
(* The decoder: the handler that decodeAndExecute calls for an opcode, by   *)
(* name. and(mask) is opcode & mask.                                        *)

decodeAndExecute(opcode) ==
    LET and(mask) == Bitwise("and", opcode, mask, 16)
        decode0 ==
            IF and(\h0100) = 0
            THEN CASE Field(opcode, 6, 3) = 0 ->
                        CASE Field(opcode, 9, 7) = 0 ->
                               IF and(\h003F) = \h003C THEN "opORItoCCR"
                               ELSE "opORI"
                          [] Field(opcode, 9, 7) = 1 ->
                               IF and(\h003F) = \h003C THEN "opANDItoCCR"
                               ELSE "opANDI"
                          [] Field(opcode, 9, 7) = 2 -> "opSUBI"
                          [] Field(opcode, 9, 7) = 3 -> "opADDI"
                          [] Field(opcode, 9, 7) = 5 ->
                               IF and(\h003F) = \h003C THEN "opEORItoCCR"
                               ELSE "opEORI"
                          [] Field(opcode, 9, 7) = 6 -> "opCMPI"
                          [] OTHER -> "opIllegal"
                   [] Field(opcode, 6, 3) = 1 -> "opBitDynamic"
                   [] OTHER ->
                        IF and(\h0138) = \h0108 THEN "opMOVEP"
                        ELSE "opBitStatic"
            ELSE "opIllegal"
        decodeMOVE == IF Field(opcode, 6, 7) = 1 THEN "opMOVEA" ELSE "opMOVE"
        decode5 ==
            IF and(\h00C0) = \h00C0
            THEN IF and(\h0038) = \h0008 THEN "opDBcc" ELSE "opScc"
            ELSE IF and(\h0100) = 0 THEN "opADDQ" ELSE "opSUBQ"
        decode4 ==
            CASE opcode = \h4E70 -> "opRESET"
              [] opcode = \h4E71 -> "opNOP"
              [] opcode = \h4E72 -> "opSTOP"
              [] opcode = \h4E73 -> "opRTE"
              [] opcode = \h4E75 -> "opRTS"
              [] opcode = \h4E76 -> "opTRAPV"
              [] opcode = \h4E77 -> "opRTR"
              [] OTHER ->
                   CASE Field(opcode, 6, 7) = 0 ->
                          CASE Field(opcode, 9, 7) = 0 -> "opNEGX"
                            [] Field(opcode, 9, 7) = 1 -> "opCLR"
                            [] Field(opcode, 9, 7) = 2 -> "opNEG"
                            [] Field(opcode, 9, 7) = 3 -> "opNOT"
                            [] OTHER -> "opIllegal"
                     [] Field(opcode, 6, 7) = 1 ->
                          CASE Field(opcode, 3, 63) \in {0, 1} -> "opNBCD"
                            [] Field(opcode, 3, 63) \in {8, 9} ->
                                 IF and(\h0008) # 0 THEN "opSWAP"
                                 ELSE "opEXT"
                            [] OTHER ->
                                 IF and(\h01C0) = \h01C0 THEN "opPEA"
                                 ELSE "opIllegal"
                     [] Field(opcode, 6, 7) = 2 ->
                          IF and(\h0800) # 0 THEN "opMOVEMtoMem"
                          ELSE IF and(\h0B80) = \h0880 THEN "opEXT"
                          ELSE "opMOVEMtoReg"
                     [] Field(opcode, 6, 7) = 3 ->
                          IF and(\h0FC0) = \h0AC0 THEN "opTAS"
                          ELSE IF and(\h0B80) = \h0880 THEN "opEXT"
                          ELSE IF and(\h0F00) = \h0E00
                          THEN IF and(\h0080) = 0 THEN "opLINK"
                               ELSE IF and(\h0008) = 0 THEN "opUNLK"
                               ELSE "opMOVEUSP"
                          ELSE "opTST"
                     [] Field(opcode, 6, 7) \in {4, 6} ->
                          IF and(\h01C0) = \h01C0 THEN "opLEA" ELSE "opCHK"
                     [] Field(opcode, 6, 7) \in {5, 7} -> decode5
                     [] OTHER ->
                          IF and(\h0FC0) = \h04C0 THEN "opMOVEMtoReg"
                          ELSE IF and(\h0B80) = \h0080 THEN "opMOVEMtoMem"
                          ELSE IF and(\h01C0) = \h01C0
                          THEN CASE Field(opcode, 9, 7) = 4 -> "opJSR"
                                 [] Field(opcode, 9, 7) = 6 -> "opJMP"
                                 [] OTHER -> "opIllegal"
                          ELSE "opIllegal"
        decode6 ==
            CASE Field(opcode, 8, 15) = 0 -> "opBRA"
              [] Field(opcode, 8, 15) = 1 -> "opBSR"
              [] OTHER -> "opBcc"
        decodeMOVEQ == IF and(\h0100) = 0 THEN "opMOVEQ" ELSE "opIllegal"
        decode8 ==
            IF and(\h01C0) = \h0100 THEN "opSBCD"
            ELSE IF and(\h01F0) = \h0100 THEN "opSBCD"
            ELSE IF and(\h01C0) = \h01C0 THEN "opDIVU"
            ELSE "opOR"
        decode9D ==
            LET isAdd == and(\hF000) = \hD000
            IN  IF and(\h00C0) = \h00C0
                THEN IF isAdd THEN "opADDA" ELSE "opSUBA"
                ELSE IF and(\h0130) = \h0100
                THEN IF isAdd THEN "opADDX" ELSE "opSUBX"
                ELSE IF isAdd THEN "opADD" ELSE "opSUB"
        decodeB ==
            IF and(\h00C0) = \h00C0 THEN "opCMPA"
            ELSE IF and(\h0138) = \h0108 THEN "opCMPM"
            ELSE IF and(\h0100) = \h0100 THEN "opEOR"
            ELSE "opCMP"
        decodeC ==
            IF and(\h01C0) = \h0100 THEN "opABCD"
            ELSE IF and(\h01F0) = \h0100 THEN "opABCD"
            ELSE IF and(\h01C0) = \h01C0 THEN "opMULU"
            ELSE IF and(\h0130) = \h0100 THEN "opEXG"
            ELSE "opAND"
        decodeE ==
            IF and(\h00C0) = \h00C0 THEN "opShiftMem" ELSE "opShiftReg"
    IN  CASE opcode \div 4096 = 0 -> decode0
          [] opcode \div 4096 \in {1, 2, 3} -> decodeMOVE
          [] opcode \div 4096 = 4 -> decode4
          [] opcode \div 4096 = 5 -> decode5
          [] opcode \div 4096 = 6 -> decode6
          [] opcode \div 4096 = 7 -> decodeMOVEQ
          [] opcode \div 4096 = 8 -> decode8
          [] opcode \div 4096 \in {9, 13} -> decode9D
          [] opcode \div 4096 = 11 -> decodeB
          [] opcode \div 4096 = 12 -> decodeC
          [] opcode \div 4096 = 14 -> decodeE
          [] OTHER -> "opIllegal"

\* Opcodes are decoded one after another; op is the handler selected and arg
\* the opcode. The handler's own effect on the CPU is the subject of the
\* specifications above, where each handler runs on its operands.
SpecDecode ==
    /\ InitInstr({InstrCPU(\h2700, FALSE)}, InstrImage)
    /\ [][
         \E opcode \in
            \* group 4: SWAP D0, SWAP D7, EXT.W D0, EXT.L D0, LEA (A0),A0,
            \* LEA (8,A0),A1, CLR.B/W/L D0, CLR.W (A0), TST.B/W/L D0,
            \* PEA (A0), JSR (A0), JMP (A0), NOP, RTE, RTS
            {\h4840, \h4847, \h4880, \h48C0, \h41D0, \h43E8, \h4200, \h4240,
             \h4280, \h4250, \h4A00, \h4A40, \h4A80, \h4850, \h4E90, \h4ED0,
             \h4E71, \h4E73, \h4E75}
            \* group 0: ORI.B/W/L #,D0, ANDI.B/W, SUBI.B, ADDI.W, EORI.L,
            \* CMPI.B/W, ORI/ANDI/EORI to CCR, ORI to SR, BTST #,D0,
            \* BTST D0,D0, BSET D0,D0, MOVEP.W (0,A0),D0
            \cup {\h0000, \h0040, \h0080, \h0200, \h0240, \h0400, \h0640,
                  \h0A80, \h0C00, \h0C40, \h003C, \h023C, \h0A3C, \h007C,
                  \h0800, \h0100, \h01C0, \h0108}
            \* group 8: SBCD D0,D0, SBCD -(A0),-(A0), OR.B D1,D0,
            \* OR.B D1,(A0), OR.W D1,(A0), DIVU D2,D0, DIVS D2,D0
            \cup {\h8100, \h8108, \h8001, \h8310, \h8350, \h80C2, \h81C2}
            \* group C: ABCD D0,D0, ABCD -(A0),-(A0), AND.B D1,D0,
            \* AND.B D1,(A0), AND.W D1,(A0), MULU D2,D0, MULS D2,D0,
            \* EXG D0,D1, EXG A0,A1, EXG D0,A1, and 0xC180
            \cup {\hC100, \hC108, \hC001, \hC310, \hC350, \hC0C2, \hC1C2,
                  \hC141, \hC149, \hC189, \hC180}
            \* the other groups: MOVE.B, MOVEA.L, ADDQ.W, DBF, BRA, BSR, BEQ,
            \* MOVEQ, 0x7100, SUB.W, ADD.W, CMP.W, EOR.W, LSL.W, line A, line F
            \cup {\h1001, \h2040, \h5240, \h51C8, \h6004, \h6104, \h6704,
                  \h7001, \h7100, \h9041, \hD041, \hB041, \hB141, \hE348,
                  \hA000, \hF000} :
            /\ Handler(decodeAndExecute(opcode), <<opcode>>)
            /\ UNCHANGED <<cpu, ram>>
       ]_vars

---------------------------------------------------------------------------
(* Claims *)

\* C1: after Reset with SSP = 0x1000, PC = 0x400 and MOVEQ #$42,D0 (0x7042) at
\* 0x400, Execute(10) leaves d[0] = 0x00000042 with N = Z = V = C = 0: the
\* fetched opcode is decoded and its effect applied.
C1_MoveqExecuted ==
    ( /\ op = "ExecuteReturn"
      /\ exec.afterReset /\ exec.memory /\ exec.n = 10
      /\ ~exec.hooked /\ exec.irqs = 0
      /\ ram = ProgramImage )
    => /\ cpu.d[0] = U32(0, \h42)
       /\ cpu.sr % 16 = 0

\* C2: after Reset with a memory handler attached, from any prior state, the
\* registers are cleared, a[7] and pc hold the vectors at 0 and 4, sr = 0x2700,
\* the control registers, stopped, halted and the cycle counters are cleared,
\* and GetSP() returns the initial SSP.
C2_ResetState ==
    (op = "Reset" /\ cpu.memory)
    => /\ \A i \in Regs : cpu.d[i] = Zero32
       /\ \A i \in 0 .. 6 : cpu.a[i] = Zero32
       /\ cpu.a[7] = Read32(ram, U32(0, 0))
       /\ cpu.pc = Read32(ram, U32(0, 4))
       /\ cpu.sr = \h2700
       /\ cpu.sfc = 0 /\ cpu.dfc = 0
       /\ cpu.vbr = Zero32 /\ cpu.cacr = Zero32 /\ cpu.caar = Zero32
       /\ ~cpu.stopped /\ ~cpu.halted
       /\ cpu.cyclesRun = 0 /\ cpu.cyclesRemain = 0
       /\ GetSP(cpu) = Read32(ram, U32(0, 0))

\* a Reset with the vectors of the tests, on a CPU whose interrupt line 3 had
\* been latched before
C2_Witness ==
    /\ op = "Reset" /\ cpu.memory
    /\ cpu.a[7] = U32(0, \h1000) /\ cpu.pc = U32(0, \h0400)
    /\ cpu.virq[3]

\* C3: an instruction is fetched only when, at the head of the loop,
\* cyclesRemain > 0 and neither stopped nor halted is set; Execute with a
\* budget <= 0 fetches nothing and returns 0.
C3_FetchOnlyWhenRunning ==
    [][ /\ exec'.fetches > exec.fetches
           => cpu.cyclesRemain > 0 /\ ~cpu.stopped /\ ~cpu.halted
        /\ exec'.n <= 0 => exec'.fetches = 0 /\ exec'.ret = 0
      ]_vars

\* Execute(0) has returned on a CPU that has memory and is neither stopped
\* nor halted
C3_Witness ==
    /\ op = "ExecuteReturn"
    /\ exec.n = 0 /\ exec.memory /\ ~exec.stopped /\ ~exec.halted
    /\ exec.fetches = 0 /\ exec.ret = 0

\* C4, as claimed: for every budget n > 0, Execute(n) on a reset, running CPU
\* returns c with 0 < c <= n.
C4_ReturnWithinBudget ==
    ( /\ exec.done /\ exec.n > 0
      /\ exec.afterReset /\ exec.memory /\ ~exec.stopped /\ ~exec.halted
      /\ ~exec.hooked /\ exec.irqs = 0 )
    => 0 < exec.ret /\ exec.ret <= exec.n

\* C4, amended: for every budget n > 0, Execute(n) on a running CPU returns
\* c > 0, and c may exceed n: c < n + 48 unless a hook raised the budget with
\* ModifyTimeslice, and c is n rounded up to a multiple of 4 when no
\* interrupt was accepted and no hook acted.
C4_ReturnOvershoot ==
    ( /\ exec.done /\ exec.n > 0
      /\ exec.memory /\ ~exec.stopped /\ ~exec.halted )
    => /\ 0 < exec.ret
       /\ exec.modify = 0 => exec.ret < exec.n + 48
       /\ (exec.irqs = 0 /\ ~exec.hooked)
          => exec.ret = 4 * ((exec.n + 3) \div 4)

\* Execute(10) right after Reset has returned 12
C4_Witness ==
    /\ op = "ExecuteReturn"
    /\ exec.afterReset /\ exec.memory /\ ~exec.stopped /\ ~exec.halted
    /\ exec.n = 10 /\ exec.ret = 12

\* C5: once halted is set it stays set through every operation but Reset, and
\* an Execute call that finds the CPU halted fetches nothing and returns 0.
C5_HaltedUntilReset ==
    [][ /\ (cpu.halted /\ ~cpu'.halted) => op' = "Reset"
        /\ exec'.halted => exec'.fetches = 0 /\ exec'.ret = 0
      ]_vars

\* Execute with a positive budget has returned on a halted CPU with memory
C5_Witness ==
    /\ op = "ExecuteReturn"
    /\ cpu.halted /\ exec.halted /\ exec.memory /\ exec.n > 0
    /\ exec.fetches = 0 /\ exec.ret = 0

\* C6: with stopped set and an interrupt asserted whose level is 7 or above
\* the SR mask, the next Execute call clears stopped.
C6_InterruptClearsStopped ==
    ( /\ op = "ExecuteReturn"
      /\ exec.stopped /\ exec.irq /\ exec.memory /\ exec.n > 0 )
    => ~cpu.stopped

\* C7: Execute with no memory handler attached returns 0 and changes no CPU
\* field.
C7_NilHandlerNoOp ==
    [][ (op' = "Execute" /\ ~cpu.memory)
        => /\ cpu' = cpu /\ ram' = ram
           /\ pos' = "idle"
           /\ exec'.done /\ exec'.ret = 0 /\ exec'.fetches = 0
      ]_vars

\* Execute with a positive budget has returned at once on a CPU without
\* memory, whose cycle counter is not zero
C7_Witness ==
    /\ op = "Execute" /\ pos = "idle"
    /\ ~cpu.memory /\ exec.done /\ exec.n > 0
    /\ cpu.cyclesRun > 0

\* C8: GetContext() right after SetContext(c) equals c in every field,
\* SetContext(GetContext()) changes no CPU field, and a snapshot taken
\* earlier changes with no later operation.
C8_ContextRoundTrip ==
    [][ /\ op' = "SetContext"
           => /\ GetContext(cpu') = arg'[1]
              /\ arg'[1] = GetContext(cpu) => cpu' = cpu
        /\ op' # "GetContext" => ctx' = ctx
      ]_vars

\* a snapshot taken earlier has been restored over a CPU that differed from it
C8_Witness ==
    /\ op = "SetContext"
    /\ arg[1] \in ctx /\ ~arg[2]
    /\ GetContext(cpu) = arg[1]

\* C9: a Reset that follows a Reset changes nothing (the memory contents at 0
\* and 4 being the same).
C9_ResetIdempotent ==
    [][ (op = "Reset" /\ op' = "Reset") => cpu' = cpu /\ ram' = ram ]_vars

\* two Resets in a row, with the vectors of the tests
C9_Witness ==
    /\ resetRun = 2
    /\ cpu.memory /\ cpu.pc = U32(0, \h0400) /\ cpu.a[7] = U32(0, \h1000)

\* C10: after Reset irqLevel is 0 and no virtual IRQ line is latched, so that
\* irqLevel is the highest latched line.
C10_ResetClearsIrqState ==
    op = "Reset"
    => /\ cpu.irqLevel = 0
       /\ \A i \in 1 .. 7 : ~cpu.virq[i]
       /\ cpu.irqLevel = highestActive(cpu.virq)

C12_StackBankCoherence ==
    [][ ( /\ op' \in {"SetSR", "SetRegister", "opSTOP", "ExecuteStep"}
          /\ Bits(cpu'.sr, \h2000, 2) # Bits(cpu.sr, \h2000, 2) )
        => IF Bits(cpu'.sr, \h2000, 2) = 1
           THEN /\ cpu'.usp = cpu.a[7]
                /\ op' # "ExecuteStep" => cpu'.a[7] = cpu.isp
           ELSE /\ cpu'.isp = cpu.a[7]
                /\ cpu'.a[7] = cpu.usp
      ]_vars

\* C13: for every register identifier r of the control surface (D0-D7, A0-A7,
\* PC, SR, SP, USP, ISP, MSP, SFC, DFC, VBR, CACR, CAAR, PPC, IR, CPU type) and
\* every value v, GetRegister(r) right after SetRegister(r, v) returns v
\* truncated to the width of the register.
C13_RegisterRoundTrip ==
    op = "SetRegister"
    => GetRegister(cpu, arg[1]) =
          CASE arg[1] \in {RegSR, RegIR} -> U32(0, arg[2][2])
            [] arg[1] \in {RegSFC, RegDFC} -> U32(0, arg[2][2] % 256)
            [] OTHER -> arg[2]

\* C14: after every SetVIRQ(level, active) with level in 1..7 the line is
\* latched as given, the other lines are as before and irqLevel is the highest
\* latched line, or 0 when none is latched; SetVIRQ with a level outside 1..7
\* changes neither the latches nor irqLevel; irqLevel is always within 0..7.
C14_VirqHighestLatched ==
    [][ /\ op' = "SetVIRQ"
           => IF arg'[1] \in 1 .. 7
              THEN /\ cpu'.virq = [cpu.virq EXCEPT ![arg'[1]] = arg'[2]]
                   /\ \A i \in 1 .. 7 : cpu'.virq[i] => i <= cpu'.irqLevel
                   /\ cpu'.irqLevel = 0 \/ cpu'.virq[cpu'.irqLevel]
              ELSE cpu'.virq = cpu.virq /\ cpu'.irqLevel = cpu.irqLevel
        /\ cpu'.irqLevel \in 0 .. 7
      ]_vars

\* line 3 has been released while line 5 is latched: the level is 5
C14_Witness ==
    /\ op = "SetVIRQ" /\ arg = <<3, FALSE>>
    /\ cpu.virq[5] /\ ~cpu.virq[3]
    /\ cpu.irqLevel = 5

\* C15: with SetIRQ and SetVIRQ called from other threads while Execute runs,
\* irqLevel is in every state the level that some serial order of the calls
\* leaves (the completed ones and any of those in progress): no latch update
\* is lost, and the level is never 0 while a line stays latched.
C15_IrqLevelSerial ==
    cpu.irqLevel \in SerialLevels

\* C16: at an instruction boundary an interrupt is accepted (its frame is
\* pushed) if and only if irqLevel is 7, or irqLevel is not 0 and greater than
\* the mask in sr bits 8..10; when it is not accepted, the interrupt check
\* changes neither pc (the instruction is fetched at the pc of the boundary),
\* sr, a[7], memory nor the cycle counters (the iteration charges the 4 cycles
\* of the fetch alone).
C16_AcceptedIffAboveMask ==
    [][ op' = "ExecuteStep"
        => LET accept == \/ cpu.irqLevel = 7
                         \/ /\ cpu.irqLevel # 0
                            /\ cpu.irqLevel > Bits(cpu.sr, 256, 8)
           IN  /\ accept <=> cpu'.a[7] = Add32(cpu.a[7], -6)
               /\ accept <=> cpu'.cyclesRun = cpu.cyclesRun + 48
               /\ ~accept
                  => /\ cpu'.ppc = cpu.pc
                     /\ cpu'.sr = cpu.sr
                     /\ cpu'.a[7] = cpu.a[7]
                     /\ ram' = ram
                     /\ cpu'.cyclesRun = cpu.cyclesRun + 4
                     /\ ~cpu.instrHookCallback
                        => cpu'.cyclesRemain = cpu.cyclesRemain - 4
      ]_vars

\* an instruction has been fetched with level 3 pending under mask 7, and no
\* interrupt was accepted
C16_Witness ==
    /\ op = "ExecuteStep"
    /\ cpu.irqLevel = 3 /\ Bits(cpu.sr, 256, 8) = 7
    /\ exec.fetches = 1 /\ exec.irqs = 0
    /\ cpu.cyclesRun = 4

\* C17: right after an interrupt of level L is accepted, sr has S = 1, the
\* interrupt mask L and the trace bit T (bit 15) 0, and its condition codes
\* are those of the sr before the interrupt.
C17_SrAfterAccept ==
    [][ (op' = "ExecuteStep" /\ exec'.irqs > exec.irqs)
        => /\ Bits(cpu'.sr, \h2000, 2) = 1
           /\ Bits(cpu'.sr, 256, 8) = cpu.irqLevel
           /\ Bits(cpu'.sr, \h8000, 2) = 0
           /\ cpu'.sr % 32 = cpu.sr % 32
      ]_vars

\* C18: accepting an interrupt pushes one frame: a[7] decreases by 6, the word
\* at the new a[7] is the sr from before the interrupt, the long at a[7] + 2
\* is the pc of the interrupted instruction stream, and no other memory
\* location is written.
C18_OneFramePushed ==
    [][ (op' = "ExecuteStep" /\ exec'.irqs > exec.irqs)
        => LET sp == cpu'.a[7]
               frame == { Mask20(Add32(sp, k)) : k \in 0 .. 5 }
           IN  /\ sp = Add32(cpu.a[7], -6)
               /\ Read16(ram', sp) = cpu.sr
               /\ Read32(ram', Add32(sp, 2)) = cpu.pc
               /\ \A x \in (DOMAIN ram \cup DOMAIN ram') \ frame :
                     Byte(ram', x) = Byte(ram, x)
      ]_vars

\* level 7 has been accepted on a reset CPU: the frame lies below the initial
\* SSP 0x1000 and holds sr 0x2700 and pc 0x400
C18_Witness ==
    /\ op = "ExecuteStep" /\ exec.irqs = 1 /\ cpu.irqLevel = 7
    /\ cpu.a[7] = U32(0, \h0FFA)
    /\ Read16(ram, U32(0, \h0FFA)) = \h2700
    /\ Read32(ram, U32(0, \h0FFC)) = U32(0, \h0400)

C20_IterationOrder ==
    [][ /\ op' = "ExecuteStep"
           => /\ exec'.fetches = exec.fetches + 1
              /\ exec'.irqs \in {exec.irqs, exec.irqs + 1}
              /\ exec'.irqs = exec.irqs => cpu'.ppc = cpu.pc
              /\ exec'.irqs > exec.irqs => cpu'.cyclesRun = cpu.cyclesRun + 48
              /\ exec'.hooks = exec.hooks
                                + (IF cpu.instrHookCallback THEN 1 ELSE 0)
              /\ cpu.instrHookCallback => exec'.hookPc = cpu'.ppc
              /\ cpu'.ir = Read16(ram', cpu'.ppc)
              /\ cpu'.pc = Add32(cpu'.ppc, 2)
        /\ (op' \in {"ExecuteStep", "ExecuteReturn"} /\ cpu'.instrHookCallback)
           => exec'.hooks = exec'.fetches
      ]_vars

\* an iteration has accepted an interrupt and then called the hook with the
\* address of the handler, not that of the interrupted instruction
C20_Witness ==
    /\ op = "ExecuteStep" /\ cpu.instrHookCallback
    /\ exec.irqs = 1 /\ exec.hooks = 1 /\ exec.fetches = 1
    /\ exec.hookPc = U32(0, \h0500) /\ cpu.ppc = U32(0, \h0500)
    /\ Read32(ram, Add32(cpu.a[7], 2)) # exec.hookPc

\* C21: EndTimeslice called from the instruction hook during Execute ends the
\* timeslice at the next instruction boundary: the instruction at whose
\* boundary the call was made is still fetched (cyclesRemain is 0 - 4 after
\* it), no later instruction is fetched, and Execute returns the cycles
\* consumed, 4 for each instruction fetched and 44 for each interrupt.
C21_EndTimesliceEndsLoop ==
    [][ /\ (op' = "ExecuteStep" /\ exec'.ended)
           => /\ ~exec.ended
              /\ exec'.fetches = exec.fetches + 1
              /\ cpu'.cyclesRemain = -4
        /\ (exec.ended /\ pos = "loop")
           => /\ op' = "ExecuteReturn"
              /\ exec'.fetches = exec.fetches
              /\ exec'.ret = 4 * exec.fetches + 44 * exec.irqs
      ]_vars

\* Execute(10) has returned after one instruction, its hook having called
\* EndTimeslice
C21_Witness ==
    /\ op = "ExecuteReturn" /\ exec.ended
    /\ exec.n = 10 /\ exec.fetches = 1 /\ exec.ret = 4

\* C22: within one Execute call cyclesRun never decreases from one step to the
\* next, whatever is fetched, whether or not an interrupt is accepted, and
\* whatever the hook does with ModifyTimeslice or EndTimeslice.
C22_CyclesRunMonotonic ==
    [][ op' \in {"ExecuteStep", "ExecuteReturn"}
        => cpu'.cyclesRun >= cpu.cyclesRun ]_vars

\* an iteration in which an interrupt was accepted and the hook lowered the
\* budget has raised cyclesRun from 0 to 48
C22_Witness ==
    /\ op = "ExecuteStep"
    /\ exec.irqs = 1 /\ exec.modifySum = -4 /\ exec.fetches = 1
    /\ cpu.cyclesRun = 48

\* C29: inside an Execute(n) call, and when it returns, cyclesRun +
\* cyclesRemain = n + the sum of the ModifyTimeslice arguments so far, as long
\* as EndTimeslice has not been called; Execute returns cyclesRun as it is at
\* loop exit.
C29_CycleConservation ==
    /\ ( /\ pos = "loop" \/ op = "ExecuteReturn"
         /\ ~exec.ended )
       => cpu.cyclesRun + cpu.cyclesRemain = exec.n + exec.modifySum
    /\ op = "ExecuteReturn" => exec.ret = cpu.cyclesRun

\* Execute(10) has returned 48 with cyclesRemain = -34, after an interrupt and
\* a ModifyTimeslice(4)
C29_Witness ==
    /\ op = "ExecuteReturn" /\ exec.n = 10
    /\ exec.modifySum = 4 /\ exec.irqs = 1
    /\ cpu.cyclesRun = 48 /\ cpu.cyclesRemain = -34

\* C30: Execute(n) returns for every budget n, every memory content and every
\* interrupt level, the hook raising the budget at most MaxModify times; with
\* no ModifyTimeslice call the loop runs at most ceil(n / 4) iterations.
C30_ExecuteTerminates ==
    /\ [](exec.modify = 0 => 4 * exec.fetches < exec.n + 4 \/ exec.fetches = 0)
    /\ (pos = "loop") ~> (pos = "idle")

\* Execute(10) has returned after three iterations
C30_Witness ==
    /\ op = "ExecuteReturn" /\ pos = "idle" /\ exec.n = 10
    /\ exec.fetches = 3 /\ exec.modify = 0

\* C26: after setFlagsAdd(dest, src, dest+src, size) and after
\* setFlagsSub(dest, src, dest-src, size), at every size, C is the carry out of
\* (the borrow into) the operation width, X equals the new C, V is
\* (Sm&Dm&!Rm)|(!Sm&!Dm&Rm) for add and (!Sm&Dm&!Rm)|(Sm&!Dm&Rm) for sub, N is
\* the sign bit of the result and Z is set exactly when the result is zero at
\* that width.
C26_ArithmeticFlags ==
    [][ op' \in {"setFlagsAdd", "setFlagsSub"} =>
          LET dest == arg'[1]
              src == arg'[2]
              size == arg'[3]
              add == op' = "setFlagsAdd"
              result == maskValue(IF add THEN AddU32(dest, src)
                                         ELSE SubU32(dest, src), size)
              carry == IF add
                       THEN Greater32(dest, result) \/ Greater32(src, result)
                       ELSE Greater32(src, dest)
              sm == signBit(src, size)
              dm == signBit(dest, size)
              rm == signBit(result, size)
              overflow == IF add
                          THEN (sm /\ dm /\ ~rm) \/ (~sm /\ ~dm /\ rm)
                          ELSE (~sm /\ dm /\ ~rm) \/ (sm /\ ~dm /\ rm)
              flag(weight) == Bits(cpu'.sr, weight, 2) = 1
          IN  /\ flag(FlagC) = carry
              /\ flag(FlagX) = flag(FlagC)
              /\ flag(FlagV) = overflow
              /\ flag(FlagN) = rm
              /\ flag(FlagZ) = (result = Zero32) ]_vars

\* C27: for every sr and every complementary pair of conditions (T/F, HI/LS,
\* CC/CS, NE/EQ, VC/VS, PL/MI, GE/LT, GT/LE) testCondition is true for exactly
\* one of the pair, and a testCondition call leaves the CPU and memory as they
\* were.
C27_ConditionSymmetry ==
    /\ [](\A k \in 0 .. 7 :
             testCondition(cpu, 2 * k) # testCondition(cpu, 2 * k + 1))
    /\ [][ op' = "testCondition" =>
             /\ cpu' = cpu /\ ram' = ram
             /\ arg'[2] = testCondition(cpu, arg'[1]) ]_vars

\* LE has been tested, and found true, with Z set and N = V
C27_Witness ==
    /\ op = "testCondition" /\ arg = <<CondLE, TRUE>>
    /\ Bits(cpu.sr, FlagZ, 2) = 1
    /\ Bits(cpu.sr, FlagN, 2) = Bits(cpu.sr, FlagV, 2)

\* C25: after setFlagsLogical and after every logical instruction (AND, OR,
\* EOR, NOT, TST, MOVE, MOVEQ, ANDI, ORI, EORI) at sizes 8, 16 and 32, V = 0
\* and C = 0, N is the sign bit of the result at the width of the operation,
\* Z is set exactly when the result is zero at that width, and X and bits
\* 5..15 of sr are as before. The result is the argument of setFlagsLogical,
\* the operand of TST, and otherwise the destination as the instruction left
\* it (a data register or the memory operand of (An)).
C25_LogicalFlagPurity ==
    [][ op' \in {"setFlagsLogical", "opAND", "opOR", "opEOR", "opNOT", "opTST",
                 "opMOVE", "opMOVEQ", "opANDI", "opORI", "opEORI"} =>
          LET o == arg'[1]
              fn == op' = "setFlagsLogical"
              toDn == op' \in {"opAND", "opOR"} /\ Field(o, 8, 1) = 0
              mode == CASE op' = "opMOVE" -> Field(o, 6, 7)
                        [] op' = "opMOVEQ" \/ toDn -> 0
                        [] OTHER -> Field(o, 3, 7)
              reg == IF op' \in {"opMOVE", "opMOVEQ"} \/ toDn
                     THEN Field(o, 9, 7) ELSE Field(o, 0, 7)
              size == CASE fn -> arg'[2]
                        [] op' = "opMOVE" -> moveSize(o)
                        [] op' = "opMOVEQ" -> 32
                        [] OTHER -> getSize(o, 6)
              result == CASE fn -> o
                          [] mode = 0 -> cpu'.d[reg]
                          [] OTHER -> readMem(M(cpu', ram'), cpu'.a[reg], size)
              flag(weight) == Bits(cpu'.sr, weight, 2) = 1
          IN  /\ ~flag(FlagV)
              /\ ~flag(FlagC)
              /\ (fn \/ mode \in {0, 2}) =>
                    /\ flag(FlagN) = signBit(result, size)
                    /\ flag(FlagZ) = (maskValue(result, size) = Zero32)
              /\ cpu'.sr \div FlagX = cpu.sr \div FlagX ]_vars

\* NOT.B D0 on D0 = $123480FF under sr = $A71F: the low byte becomes 0, so
\* Z = 1 and N = V = C = 0, with X and the upper byte of sr kept
C25_Witness ==
    /\ op = "opNOT" /\ arg = <<\h4600>> /\ nops = 1
    /\ cpu.d[0] = U32(\h1234, \h8000)
    /\ cpu.sr = \hA714

\* C28: a read-modify-write instruction with a memory destination resolves
\* the destination once: through (An)+ or -(An) the register moves by one
\* step of the operand size and memory changes only in the operand that was
\* read; through (d16,An), (d8,An,Xn), (xxx).W and (xxx).L the extension
\* words are consumed once, so pc advances by the encoded length of the
\* instruction.
C28_DestinationResolvedOnce ==
    [][ ( /\ op' \in {"opADD", "opAND", "opOR", "opEOR", "opANDI", "opORI",
                      "opEORI", "opADDQ", "opNOT", "opNEG"}
          /\ op' \in {"opADD", "opAND", "opOR"}
                => Field(arg'[1], 8, 1) = 1 ) =>
          LET o == arg'[1]
              mode == Field(o, 3, 7)
              reg == Field(o, 0, 7)
              size == getSize(o, 6)
              step == eaStep(reg, size)
              immediate == IF op' \in {"opANDI", "opORI", "opEORI"}
                           THEN (IF size = 32 THEN 4 ELSE 2) ELSE 0
              extension == CASE mode \in {5, 6} -> 2
                             [] mode = 7 /\ reg = 0 -> 2
                             [] mode = 7 /\ reg = 1 -> 4
                             [] OTHER -> 0
              before == cpu.a[reg]
              operand == IF mode = 3 THEN before ELSE Add32(before, 0 - step)
              written == {i \in DOMAIN ram \cup DOMAIN ram' :
                             Byte(ram', i) # Byte(ram, i)}
          IN  /\ mode = 3 => cpu'.a[reg] = Add32(before, step)
              /\ mode = 4 => cpu'.a[reg] = Add32(before, 0 - step)
              /\ mode \in {3, 4} =>
                    written \subseteq
                        Mask20(operand) .. Mask20(operand) + size \div 8 - 1
              /\ cpu'.pc = Add32(cpu.pc, immediate + extension) ]_vars

\* C23: in user mode (S = 0) STOP, RESET and MOVE USP leave usp, A0..A6, the
\* stopped flag and the sr bits below S as they were, do not call the reset
\* callback, and raise the privilege violation: S is set and pc is loaded
\* from vector 8 (address 32).
C23_PrivilegedGuarded ==
    [][ ( /\ op' \in {"opSTOP", "opRESET", "opMOVEUSP"}
          /\ Bits(cpu.sr, 8192, 2) = 0 ) =>
          /\ cpu'.usp = cpu.usp
          /\ \A i \in 0 .. 6 : cpu'.a[i] = cpu.a[i]
          /\ cpu'.stopped = cpu.stopped
          /\ cpu'.sr % 8192 = cpu.sr % 8192
          /\ op' = "opRESET" => ~arg'[2]
          /\ Bits(cpu'.sr, 8192, 2) = 1
          /\ cpu'.pc = Read32(ram, U32(0, 32)) ]_vars

\* C24: an unrecognised, line-A or line-F opcode, TRAPV with V set, CHK with
\* Dn out of range and a division by zero each push a pc/sr frame on the
\* stack (a[7] drops by the frame size, 6 bytes, or 8 with a format word),
\* set S, leave the interrupt mask alone and load pc from the vector of the
\* exception: illegal 16, line-A 40, line-F 44, TRAPV 28, CHK 24, zero
\* divide 20.
C24_ExceptionsTaken ==
    [][ ( \/ op' = "opIllegal"
          \/ op' = "opTRAPV" /\ Bits(cpu.sr, FlagV, 2) = 1
          \/ op' = "opCHK" /\ signBit(cpu.d[Field(arg'[1], 9, 7)], 16)
          \/ op' = "opDIVU"
               /\ maskValue(cpu.d[Field(arg'[1], 0, 7)], 16) = Zero32 ) =>
          LET o == arg'[1]
              vector == CASE op' = "opTRAPV" -> 28
                          [] op' = "opCHK" -> 24
                          [] op' = "opDIVU" -> 20
                          [] Field(o, 12, 15) = 10 -> 40
                          [] Field(o, 12, 15) = 15 -> 44
                          [] OTHER -> 16
          IN  /\ cpu'.a[7] \in {Add32(cpu.a[7], -6), Add32(cpu.a[7], -8)}
              /\ Bits(cpu'.sr, 8192, 2) = 1
              /\ Bits(cpu'.sr, 256, 8) = Bits(cpu.sr, 256, 8)
              /\ cpu'.pc = Read32(ram, U32(0, vector)) ]_vars

\* C31: for every CPU type, when an interrupt has been accepted and RTE is
\* the next instruction (the handler has left the stack as it found it), pc,
\* the whole sr and a[7] are again what they were just before the interrupt
\* was accepted.
C31_InterruptRteRoundTrip ==
    [][ op = "handleInterrupt" /\ op' = "opRTE" =>
          /\ cpu'.pc = arg[1]
          /\ cpu'.sr = arg[2]
          /\ cpu'.a[7] = arg[3] ]_vars

\* a 68010 at pc 0x402 with sr 0x0004 and a[7] = 0x1000 has accepted the
\* level 7 interrupt and returned from it: the frame is still in memory
\* below the stack pointer
C31_Witness ==
    /\ op = "opRTE" /\ nops = 2
    /\ cpu.cpuType = CPU68010
    /\ cpu.pc = U32(0, \h0402) /\ cpu.sr = \h0004
    /\ cpu.a[7] = U32(0, \h1000)
    /\ Read16(ram, U32(0, \h0FFA)) = \h0004
    /\ Read32(ram, U32(0, \h0FFC)) = U32(0, \h0402)

\* C32: for every level 1 .. 7, with the host leaving irqLevel and sr alone
\* during Execute, an instruction boundary that follows the acceptance of
\* the interrupt accepts nothing: no second frame is pushed, a[7] stays.
C32_NoReentry ==
    [][ exec.irqs >= 1 /\ exec'.fetches = exec.fetches + 1 =>
          /\ exec'.irqs = exec.irqs
          /\ cpu'.a[7] = cpu.a[7] ]_vars

\* C40: every opcode fetch of the Execute loop is from an even address (pc is
\* the address of the fetch plus 2 when the iteration ends), whatever the
\* reset vector and the interrupt vectors hold.
C40_PcEvenAtFetch ==
    [][ exec'.fetches = exec.fetches + 1 => cpu'.pc[2] % 2 = 0 ]_vars

\* the operand of the given size that memory r holds at address
C33_Operand(r, address, size) ==
    CASE size = 8 -> U32(0, Read8(r, address))
      [] size = 16 -> U32(0, Read16(r, address))
      [] OTHER -> Read32(r, address)

\* one readEA or writeEA call in mode (An)+ or -(An): a[reg] moves once by
\* the step, the other address registers stay, the operand is the one at the
\* address before the step for (An)+ and after it for -(An), and an even
\* a[7] stays even
C33_Stepped ==
    LET mode == arg'[1]
        reg == arg'[2]
        size == arg'[3]
        step == IF size = 8 /\ reg = 7 THEN 2 ELSE size \div 8
        at == IF mode = 3 THEN cpu.a[reg] ELSE cpu'.a[reg]
    IN  mode \in {3, 4} =>
          /\ cpu'.a = [cpu.a EXCEPT ![reg] =
                          Add32(@, IF mode = 3 THEN step ELSE 0 - step)]
          /\ op' = "readEA" => arg'[4] = C33_Operand(ram, at, size)
          /\ op' = "writeEA" =>
                C33_Operand(ram', at, size) = maskValue(arg'[4], size)
          /\ cpu.a[7][2] % 2 = 0 => cpu'.a[7][2] % 2 = 0

C34_BranchTargetsAgree ==
    [][ op' \in {"opBcc", "opBSR"} =>
          LET A == Add32(cpu.pc, -2)
              printed == disasm6(ram, arg'[1], A)
              taken == \/ op' = "opBSR"
                       \/ testCondition(cpu, Field(arg'[1], 8, 15))
          IN  cpu'.pc = IF taken THEN printed.target
                        ELSE Add32(A, printed.size) ]_vars

\* C35: one opDBcc call (pc at the displacement word when it starts). With
\* the condition true Dn is unchanged and pc is past the displacement word;
\* with it false the low word of Dn is decremented, the upper word kept, and
\* pc is the displacement word's address plus the displacement exactly when
\* the new low word is not 0xFFFF, else past the displacement word. The DBF
\* D0 loop at 0x400, entered in the initial state with D0.w = k (kept in
\* D3), has made k + 1 calls, each one decrement, when it falls through.
C35_DBcc ==
    [][ op' = "opDBcc" =>
          LET reg == Field(arg'[1], 0, 7)
              at == cpu.pc
              disp == signExtend16(U32(0, Read16(ram, at)))
              low == (cpu.d[reg][2] + W16 - 1) % W16
          IN  /\ \A r \in 0 .. 7 : r # reg => cpu'.d[r] = cpu.d[r]
              /\ IF testCondition(cpu, Field(arg'[1], 8, 15))
                 THEN cpu'.d[reg] = cpu.d[reg] /\ cpu'.pc = Add32(at, 2)
                 ELSE /\ cpu'.d[reg] = U32(cpu.d[reg][1], low)
                      /\ cpu'.pc = IF low # W16 - 1 THEN AddU32(at, disp)
                                   ELSE Add32(at, 2)
              /\ /\ arg'[1] = \h51C8 /\ cpu'.pc = Add32(at, 2)
                 /\ nops = 0 \/ (nops = 1 /\ op = "readImmediate16")
                 => /\ cpu'.d[0][2] = W16 - 1
                    /\ nops' = cpu.d[3][2] + 1 ]_vars

\* C35 witness: the DBF D0 loop at 0x400 entered with D0.w = 1 has run twice
\* and fallen through to 0x404 with D0 = 0x1234FFFF.
C35_Witness ==
    /\ op = "opDBcc" /\ arg = <<\h51C8>> /\ nops = 2
    /\ cpu.d[3] = U32(0, 1)
    /\ cpu.d[0] = U32(\h1234, \hFFFF)
    /\ cpu.pc = U32(0, \h0404)

\* the address of the instruction that follows the JSR or BSR with the given
\* opcode, pc being the address after the opcode word: past one extension
\* word for BSR.W and for the JSR modes with a displacement, an index or a
\* short address, past two for JSR (xxx).L
C36_ReturnAddress(name, opcode, pc) ==
    Add32(pc,
          IF name = "opBSR" THEN (IF opcode % 256 = 0 THEN 2 ELSE 0)
          ELSE CASE Field(opcode, 3, 7) = 2 -> 0
                 [] Field(opcode, 3, 7) = 7 /\ Field(opcode, 0, 7) = 1 -> 4
                 [] OTHER -> 2)

\* C36: JSR and BSR push the address of the following instruction (a[7]
\* lowered by 4); RTS sets pc to the long at a[7] and raises a[7] by 4; so
\* an RTS right after a JSR or BSR made in the initial state (pc = 0x402,
\* a[7] = 0x1000) returns to the following instruction with a[7] = 0x1000.
C36_CallReturnRoundTrip ==
    [][ /\ op' \in {"opJSR", "opBSR"} =>
              /\ cpu'.a[7] = Add32(cpu.a[7], -4)
              /\ Read32(ram', cpu'.a[7]) =
                    C36_ReturnAddress(op', arg'[1], cpu.pc)
        /\ op' = "opRTS" =>
              /\ cpu'.pc = Read32(ram, cpu.a[7])
              /\ cpu'.a[7] = Add32(cpu.a[7], 4)
        /\ op' = "opRTS" /\ op \in {"opJSR", "opBSR"} /\ nops = 1 =>
              /\ cpu'.pc = C36_ReturnAddress(op, arg[1], U32(0, \h0402))
              /\ cpu'.a[7] = U32(0, \h1000) ]_vars

\* C36 witness: RTS after JSR (xxx).L at 0x400 has returned to 0x406, the
\* address past the two extension words, with a[7] back at 0x1000.
C36_Witness ==
    /\ op = "opRTS" /\ nops = 2
    /\ cpu.pc = U32(0, \h0406)
    /\ cpu.a[7] = U32(0, \h1000)
    /\ Read32(ram, U32(0, \h0FFC)) = U32(0, \h0406)

\* C37: the group-4 decoder selects SWAP for 0x4840-0x4847, EXT for
\* 0x4880-0x4887 and 0x48C0-0x48C7, LEA for 0100 rrr1 11 <ea>, CLR for
\* 0100 0010 ss <ea>, TST for 0100 1010 ss <ea> (ss not 11), PEA for
\* 0100 1000 01 <control ea>, JSR for 0100 1110 10 <ea> and JMP for
\* 0100 1110 11 <ea>.
C37_Group4Dispatch ==
    [][ nops' = nops + 1 /\ arg'[1] \div 4096 = 4 =>
          LET opcode == arg'[1]
              eaMode == Field(opcode, 3, 7)
              eaReg == Field(opcode, 0, 7)
          IN  /\ opcode \in \h4840 .. \h4847 => op' = "opSWAP"
              /\ opcode \in (\h4880 .. \h4887) \cup (\h48C0 .. \h48C7) =>
                    op' = "opEXT"
              /\ Field(opcode, 6, 7) = 7 => op' = "opLEA"
              /\ Field(opcode, 8, 15) = 2 /\ Field(opcode, 6, 3) # 3 =>
                    op' = "opCLR"
              /\ Field(opcode, 8, 15) = 10 /\ Field(opcode, 6, 3) # 3 =>
                    op' = "opTST"
              /\ /\ Field(opcode, 6, 63) = \h21
                 /\ eaMode \in {2, 5, 6} \/ (eaMode = 7 /\ eaReg <= 3)
                 => op' = "opPEA"
              /\ Field(opcode, 6, 63) = \h3A => op' = "opJSR"
              /\ Field(opcode, 6, 63) = \h3B => op' = "opJMP" ]_vars

\* C38: the group-0 decoder selects the immediate instruction named by bits
\* 11..9 for every opcode 0000 ooo0 ss <ea> with ss byte, word or long, the
\* CCR/SR variants only for the forms whose low six bits are 0x3C, and a
\* dynamic bit operation or MOVEP for every opcode with bit 8 set.
C38_Group0Dispatch ==
    [][ nops' = nops + 1 /\ arg'[1] \div 4096 = 0 =>
          LET opcode == arg'[1]
              ooo == Field(opcode, 9, 7)
              toCCR == {"opORItoCCR", "opANDItoCCR", "opEORItoCCR"}
          IN  /\ /\ Field(opcode, 8, 1) = 0
                 /\ ooo \in {0, 1, 2, 3, 5, 6}
                 /\ Field(opcode, 6, 3) # 3
                 /\ Field(opcode, 0, 63) # \h3C
                 => op' = CASE ooo = 0 -> "opORI"
                            [] ooo = 1 -> "opANDI"
                            [] ooo = 2 -> "opSUBI"
                            [] ooo = 3 -> "opADDI"
                            [] ooo = 5 -> "opEORI"
                            [] OTHER -> "opCMPI"
              /\ op' \in toCCR => Field(opcode, 0, 63) = \h3C
              /\ Field(opcode, 8, 1) = 1 =>
                    op' \in {"opBitDynamic", "opMOVEP"} ]_vars

\* C39: in groups 8 and C the decoder selects SBCD/ABCD exactly for bits
\* 8..4 = 10000, DIVU/MULU for bits 8..6 = 011, EXG only for bits 8..3 =
\* 101000, 101001 and 110001 of group C, and OR/AND for the other encodings
\* (bits 8..6 = 111, the signed divide and multiply, are left open).
C39_Groups8CDispatch ==
    [][ nops' = nops + 1 /\ arg'[1] \div 4096 \in {8, 12} =>
          LET opcode == arg'[1]
              isC == opcode \div 4096 = 12
              bcd == Field(opcode, 4, 31) = 16
              exg == isC /\ Field(opcode, 3, 63) \in {\h28, \h29, \h31}
          IN  /\ op' \in {"opSBCD", "opABCD"} <=> bcd
              /\ bcd => op' = IF isC THEN "opABCD" ELSE "opSBCD"
              /\ Field(opcode, 6, 7) = 3 =>
                    op' = IF isC THEN "opMULU" ELSE "opDIVU"
              /\ op' = "opEXG" => exg
              /\ ~bcd /\ ~exg /\ Field(opcode, 6, 3) # 3 =>
                    op' = IF isC THEN "opAND" ELSE "opOR" ]_vars

====
